---- MODULE Spec2Model ----
(***************************************************************************)
(* Model of the avatar pipeline of app/api/routes.py and                   *)
(* app/queue/tasks.py: the two MongoDB collections (users, jobs), the       *)
(* request handlers that read and write them, and the Celery tasks          *)
(* train_identity_task and generate_video_task with the stage functions    *)
(* they call.                                                               *)
(*                                                                         *)
(* Granularity.  A request handler is one action.  A task is cut at the    *)
(* points where it touches state shared with other executions: a MongoDB   *)
(* operation or the dataset directory of the user.  Computation between    *)
(* two such points is local to the execution and is part of the step that  *)
(* precedes it.  A call .delay() only appends a message to the queue; the  *)
(* worker picks it up in a later step.                                     *)
(* The section on the users collection cuts upload_photos and the start   *)
(* of train_identity_task at each of their store operations.               *)
(*                                                                         *)
(* datetime values (created_at, updated_at, completed_at) are kept only    *)
(* where the code can leave them null: completed_at is Null or Stamp.      *)
(***************************************************************************)
EXTENDS Naturals, Sequences, FiniteSets, TLC

\* ------------------------------------------------------------------ bounds

\* Number of events the environment may inject in one behaviour: requests
\* (upload-photos, train-identity and generate-video, accepted or rejected),
\* repeated deliveries of a generate_video_task message and failures of
\* stage functions (an exception, a null or false result).
MaxEvents == 4

UserIds == {"u1"}

\* The photo batches a client uploads.  A photo is an image file with a
\* detectable face, an image file without one, or a file whose content type
\* is not image/*.  Every file name carries the suffix .jpg.
PhotoBatches ==
  { <<"noface">>, <<"face", "noface", "face">>, <<"notimage", "face">> }

\* ------------------------------------------------------- program constants

Null == "null"

\* The upload directory of a user that does not exist: a value that is no
\* list of saved files
NoDirectory == << Null >>
Stamp == "utcnow"

PENDING == "pending"
PROCESSING == "processing"
COMPLETED == "completed"
FAILED == "failed"

train_identity_max_retries == 3

\* @celery_app.task(name="generate_talking_head_task", bind=True, max_retries=2)
generate_talking_head_max_retries == 2

\* settings.ELEVENLABS_RETRY_ATTEMPTS
ELEVENLABS_RETRY_ATTEMPTS == 2

VARIABLES
  users,        \* collection "users": user_id -> document
  jobs,         \* collection "jobs": job_id -> document
  settings,     \* which of the S3 settings are set
  uploads,      \* DATASETS_DIR/<user>/uploads: NoDirectory, or the files 0000.jpg, ...
  dataset,      \* DATASETS_DIR/<user>: indices of the *.jpg and *.txt files
  trainTasks,   \* executions of train_identity_task, one per accepted request
  videoTasks,   \* deliveries of generate_video_task
  handlers,     \* upload-photos requests being handled step by step
  response,     \* the response of the last request handled
  nEvents       \* events injected so far

vars ==
  << users, jobs, settings, uploads, dataset, trainTasks, videoTasks,
     handlers, response, nEvents >>

\* ------------------------------------------------------------ documents

user_doc(user_id, training_status) ==
  [ user_id |-> user_id,
    lora_path |-> Null,
    voice_id |-> Null,
    training_status |-> training_status ]

\* job_doc writing the status the task sets first
job_doc_StartsProcessing(job_id, user_id, script_text, product_image_path) ==
  [ job_id |-> job_id,
    user_id |-> user_id,
    script_text |-> script_text,
    product_image_path |-> product_image_path,
    status |-> PROCESSING,
    video_path |-> Null,
    s3_url |-> Null,
    error_message |-> Null,
    completed_at |-> Null ]

job_doc(job_id, user_id, script_text, product_image_path) ==
  [ job_id |-> job_id,
    user_id |-> user_id,
    script_text |-> script_text,
    product_image_path |-> product_image_path,
    status |-> PENDING,
    video_path |-> Null,
    s3_url |-> Null,
    error_message |-> Null,
    completed_at |-> Null ]

\* find_one({"user_id": u}) finds a document
UserExists(u) == u \in DOMAIN users

\* insert_one
InsertUser(u, doc) == [ x \in DOMAIN users \cup {u} |-> IF x = u THEN doc ELSE users[x] ]

\* update_many with the empty filter in place of update_one({"user_id": u}, ..)
SetTrainingStatus_EveryUser(u, s) ==
  [ k \in DOMAIN users |-> [ users[k] EXCEPT !.training_status = s ] ]

\* update_one({"user_id": u}, {"$set": {"training_status": s, "updated_at": now}});
\* a filter that matches no document changes nothing
SetTrainingStatus(u, s) ==
  IF UserExists(u)
    THEN [ users EXCEPT ![u].training_status = s ]
    ELSE users

\* ------------------------------------------------------------- responses

Response(op, key, code, detail, payload) ==
  [ op |-> op, key |-> key, code |-> code, detail |-> detail, payload |-> payload ]

\* ------------------------------------------------------------- paths

LoraPath(u) == "lora_storage/" \o u \o ".safetensors"

\* ------------------------------------------------------------- upload

\* The photos of a batch that upload_photos saves: those before the first
\* file whose content type is not image/*, where the handler raises 400.
RECURSIVE SavedPrefix(_)
SavedPrefix(photos) ==
  IF photos = <<>> \/ Head(photos) = "notimage"
    THEN <<>>
    ELSE <<Head(photos)>> \o SavedPrefix(Tail(photos))

\* Writing files 0000.jpg .. over what the directory holds
WriteUploads(old, saved) ==
  LET prev == IF old = NoDirectory THEN <<>> ELSE old
  IN  saved \o SubSeq(prev, Len(saved) + 1, Len(prev))

upload_photos(u, photos) ==
  /\ users' = IF UserExists(u) THEN users ELSE InsertUser(u, user_doc(u, PENDING))
  /\ uploads' = [ uploads EXCEPT ![u] = WriteUploads(uploads[u], SavedPrefix(photos)) ]
  /\ response' =
       IF Len(SavedPrefix(photos)) = Len(photos)
         THEN Response("upload_photos", u, 200, "ok", Null)
         ELSE Response("upload_photos", u, 400, "File is not an image", Null)
  /\ nEvents < MaxEvents
  /\ nEvents' = nEvents + 1
  /\ UNCHANGED << jobs, settings, handlers, dataset, trainTasks, videoTasks >>

\* ------------------------------------------------------- train_identity

\* train_identity without the check of lines 106-107: a request for an
\* identity in Processing goes on to the checks of the uploaded photos
TrainIdentityResponse_NoConflict(u) ==
  IF ~UserExists(u)
    THEN Response("train_identity", u, 404, "User not found", Null)
  ELSE IF users[u].training_status = COMPLETED
    THEN Response("train_identity", u, 200, "already_completed", users[u].lora_path)
  ELSE IF uploads[u] = NoDirectory
    THEN Response("train_identity", u, 400, "No photos uploaded for this user", Null)
  ELSE IF Len(uploads[u]) = 0
    THEN Response("train_identity", u, 400, "No valid images found", Null)
  ELSE Response("train_identity", u, 200, "processing", Null)

\* train_identity without the short-circuit of lines 109-114: a request for a
\* Completed identity goes on to the checks of the uploaded photos
TrainIdentityResponse_NoShortCircuit(u) ==
  IF ~UserExists(u)
    THEN Response("train_identity", u, 404, "User not found", Null)
  ELSE IF users[u].training_status = PROCESSING
    THEN Response("train_identity", u, 400, "Training already in progress", Null)
  ELSE IF uploads[u] = NoDirectory
    THEN Response("train_identity", u, 400, "No photos uploaded for this user", Null)
  ELSE IF Len(uploads[u]) = 0
    THEN Response("train_identity", u, 400, "No valid images found", Null)
  ELSE Response("train_identity", u, 200, "processing", Null)

\* train_identity without the check of lines 123-124: a directory without a
\* valid image is accepted
TrainIdentityResponse_NoEmptyCheck(u) ==
  IF ~UserExists(u)
    THEN Response("train_identity", u, 404, "User not found", Null)
  ELSE IF users[u].training_status = PROCESSING
    THEN Response("train_identity", u, 400, "Training already in progress", Null)
  ELSE IF users[u].training_status = COMPLETED
    THEN Response("train_identity", u, 200, "already_completed", users[u].lora_path)
  ELSE IF uploads[u] = NoDirectory
    THEN Response("train_identity", u, 400, "No photos uploaded for this user", Null)
  ELSE Response("train_identity", u, 200, "processing", Null)

\* The response of the handler train_identity for user u in the current state
TrainIdentityResponse(u) ==
  IF ~UserExists(u)
    THEN Response("train_identity", u, 404, "User not found", Null)
  ELSE IF users[u].training_status = PROCESSING
    THEN Response("train_identity", u, 400, "Training already in progress", Null)
  ELSE IF users[u].training_status = COMPLETED
    THEN Response("train_identity", u, 200, "already_completed", users[u].lora_path)
  ELSE IF uploads[u] = NoDirectory
    THEN Response("train_identity", u, 400, "No photos uploaded for this user", Null)
  ELSE IF Len(uploads[u]) = 0
    THEN Response("train_identity", u, 400, "No valid images found", Null)
  ELSE Response("train_identity", u, 200, "processing", Null)

\* A message of train_identity_task(user_id, image_paths) as .delay() queues it.
\* image_paths are the files 0000.jpg .. of the upload directory: their number.
TrainMessage(u, n) ==
  [ user_id |-> u,
    image_paths |-> n,
    retries |-> 0,
    pc |-> "queued",
    processed_paths |-> {},
    stages |-> <<>>,
    result |-> Null ]

\* train_identity setting Processing itself when it accepts the request
train_identity_SetsProcessing(u) ==
  LET r == TrainIdentityResponse(u)
  IN  /\ nEvents < MaxEvents
      /\ nEvents' = nEvents + 1
      /\ response' = r
      /\ trainTasks' = IF r.detail = "processing"
                         THEN Append(trainTasks, TrainMessage(u, Len(uploads[u])))
                         ELSE trainTasks
      /\ users' = IF r.detail = "processing" THEN SetTrainingStatus(u, PROCESSING) ELSE users
      /\ UNCHANGED << jobs, settings, handlers, uploads, dataset, videoTasks >>

\* lines 100-133
train_identity(u) ==
  LET r == TrainIdentityResponse(u)
  IN  /\ nEvents < MaxEvents
      /\ nEvents' = nEvents + 1
      /\ response' = r
      /\ trainTasks' = IF r.detail = "processing"
                         THEN Append(trainTasks, TrainMessage(u, Len(uploads[u])))
                         ELSE trainTasks
      /\ UNCHANGED << users, jobs, settings, handlers, uploads, dataset, videoTasks >>

\* --------------------------------------------------- train_identity_task

SetTask(t, rec) == trainTasks' = [ trainTasks EXCEPT ![t] = rec ]

\* An execution that has returned (or raised for the last time): its locals
\* are gone, its result is what the task returned
Finished(T, result) ==
  [ T EXCEPT !.pc = "done", !.processed_paths = {}, !.stages = <<>>, !.result = result ]

\* lines 45-52: find the user, insert or update to Processing
TrainSetProcessing(t) ==
  LET T == trainTasks[t]
      u == T.user_id
  IN  /\ T.pc = "queued"
      /\ users' = IF UserExists(u)
                    THEN SetTrainingStatus(u, PROCESSING)
                    ELSE InsertUser(u, user_doc(u, PROCESSING))
      /\ SetTask(t, [ T EXCEPT !.pc = "preprocess" ])
      /\ UNCHANGED << jobs, settings, handlers, uploads, dataset, videoTasks, response, nEvents >>

\* process_batch giving up on the whole batch when one input shows no face
process_batch_AllOrNothing(image_paths, files) ==
  IF \A i \in 1..image_paths : i <= Len(files) /\ files[i] = "face"
    THEN 1..image_paths
    ELSE {}

\* FacePreprocessor.process_batch: the output file <idx>.jpg is written for
\* every input in which a face is detected
process_batch(image_paths, files) ==
  { i \in 1..image_paths : i <= Len(files) /\ files[i] = "face" }

\* lines 54-62
TrainPreprocess(t) ==
  LET T == trainTasks[t]
      u == T.user_id
      processed == process_batch(T.image_paths, uploads[u])
  IN  /\ T.pc = "preprocess"
      /\ dataset' = [ dataset EXCEPT ![u].jpg = @ \cup processed ]
      /\ SetTask(t, [ T EXCEPT !.pc = IF processed = {} THEN "write_failed" ELSE "caption",
                               !.result = IF processed = {}
                                            THEN "No faces detected in images" ELSE Null,
                               !.processed_paths = processed,
                               !.stages = Append(@, "preprocess") ])
      /\ UNCHANGED << users, jobs, settings, handlers, uploads, videoTasks, response, nEvents >>

\* CaptionGenerator.create_caption_files: one .txt beside every processed image
create_caption_files(processed_paths) == processed_paths

\* lines 64-65
TrainCaption(t) ==
  LET T == trainTasks[t]
      u == T.user_id
  IN  /\ T.pc = "caption"
      /\ dataset' = [ dataset EXCEPT ![u].txt = @ \cup create_caption_files(T.processed_paths) ]
      /\ SetTask(t, [ T EXCEPT !.pc = "validate", !.stages = Append(@, "caption") ])
      /\ UNCHANGED << users, jobs, settings, handlers, uploads, videoTasks, response, nEvents >>

\* LoRATrainer.validate_dataset
validate_dataset(dir) == dir.jpg # {} /\ dir.jpg \subseteq dir.txt

\* the task calling LoRATrainer.train without the check of lines 70-75
TrainValidateAndTrainWith_SkipsValidation(t, success) ==
  LET T == trainTasks[t]
  IN  /\ T.pc = "validate"
      /\ success \/ nEvents < MaxEvents
      /\ nEvents' = IF success THEN nEvents ELSE nEvents + 1
      /\ SetTask(t, [ T EXCEPT !.pc = IF success THEN "write_completed" ELSE "write_failed",
                               !.result = IF success THEN Null ELSE "Training failed",
                               !.stages = @ \o <<"validate", "train">> ])
      /\ UNCHANGED << users, jobs, settings, handlers, uploads, dataset, videoTasks, response >>

\* lines 67-78: validate, then LoRATrainer.train, which returns success
TrainValidateAndTrainWith(t, success) ==
  LET T == trainTasks[t]
      u == T.user_id
  IN  /\ T.pc = "validate"
      /\ IF ~validate_dataset(dataset[u])
           THEN /\ success
                /\ SetTask(t, [ T EXCEPT !.pc = "write_failed",
                                         !.result = "Invalid dataset",
                                         !.stages = Append(@, "validate") ])
                /\ UNCHANGED nEvents
           ELSE /\ success \/ nEvents < MaxEvents
                /\ nEvents' = IF success THEN nEvents ELSE nEvents + 1
                /\ SetTask(t, [ T EXCEPT !.pc = IF success THEN "write_completed"
                                                           ELSE "write_failed",
                                         !.result = IF success THEN Null
                                                               ELSE "Training failed",
                                         !.stages = @ \o <<"validate", "train">> ])
      /\ UNCHANGED << users, jobs, settings, handlers, uploads, dataset, videoTasks, response >>

\* LoRATrainer.train returns True or False
TrainValidateAndTrain(t) == \E success \in BOOLEAN : TrainValidateAndTrainWith(t, success)

\* the Completed write setting the status without the artifact location
TrainWriteCompleted_StatusOnly(t) ==
  LET T == trainTasks[t]
      u == T.user_id
  IN  /\ T.pc = "write_completed"
      /\ users' = SetTrainingStatus(u, COMPLETED)
      /\ SetTask(t, Finished(T, COMPLETED))
      /\ UNCHANGED << jobs, settings, handlers, uploads, dataset, videoTasks, response, nEvents >>

\* lines 80-89
TrainWriteCompleted(t) ==
  LET T == trainTasks[t]
      u == T.user_id
  IN  /\ T.pc = "write_completed"
      /\ users' = IF UserExists(u)
                    THEN [ users EXCEPT ![u].lora_path = LoraPath(u),
                                        ![u].training_status = COMPLETED ]
                    ELSE users
      /\ SetTask(t, Finished(T, COMPLETED))
      /\ UNCHANGED << jobs, settings, handlers, uploads, dataset, videoTasks, response, nEvents >>

\* lines 58-62, 71-75, 91-95: set Failed and return {"status": "failed", "error": ...}
TrainWriteFailed(t) ==
  LET T == trainTasks[t]
      u == T.user_id
  IN  /\ T.pc = "write_failed"
      /\ users' = SetTrainingStatus(u, FAILED)
      /\ SetTask(t, Finished(T, T.result))
      /\ UNCHANGED << jobs, settings, handlers, uploads, dataset, videoTasks, response, nEvents >>

\* An exception inside the try block: constructing FacePreprocessor or
\* processing an image (pc = "preprocess"), writing a caption file
\* (pc = "caption"), constructing LoRATrainer (pc = "validate").
TrainRaise(t) ==
  LET T == trainTasks[t]
  IN  /\ T.pc \in {"preprocess", "caption", "validate"}
      /\ nEvents < MaxEvents
      /\ nEvents' = nEvents + 1
      /\ SetTask(t, [ T EXCEPT !.pc = "except" ])
      /\ UNCHANGED << users, jobs, settings, handlers, uploads, dataset, videoTasks, response >>

\* lines 97-102: set Failed, then self.retry(exc=e, countdown=60): Celery queues
\* the message again with retries + 1, or re-raises exc once retries exceed
\* max_retries
TrainExcept(t) ==
  LET T == trainTasks[t]
      u == T.user_id
  IN  /\ T.pc = "except"
      /\ users' = SetTrainingStatus(u, FAILED)
      /\ IF T.retries + 1 > train_identity_max_retries
           THEN SetTask(t, Finished(T, "raised"))
           ELSE SetTask(t, [ T EXCEPT !.pc = "queued", !.retries = @ + 1,
                                      !.processed_paths = {}, !.stages = <<>> ])
      /\ UNCHANGED << jobs, settings, handlers, uploads, dataset, videoTasks, response, nEvents >>

train_identity_task(t) ==
  \/ TrainSetProcessing(t)
  \/ TrainPreprocess(t)
  \/ TrainCaption(t)
  \/ TrainValidateAndTrain(t)
  \/ TrainWriteCompleted(t)
  \/ TrainWriteFailed(t)
  \/ TrainRaise(t)
  \/ TrainExcept(t)

\* -------------------------------------------------------- generate_video

JobKey(n) == "job" \o ToString(n)
ProductPath(u, job_id) == "datasets/" \o u \o "/products/" \o job_id \o ".jpg"
VoiceOf(u) == "voice_" \o u

\* generate_video without the check of lines 182-186: any existing user gets a job
GenerateVideoResponse_NoStatusCheck(u) ==
  IF ~UserExists(u)
    THEN Response("generate_video", u, 404, "User not found", Null)
  ELSE Response("generate_video", u, 200, PENDING, JobKey(Cardinality(DOMAIN jobs) + 1))

\* The response of the handler generate_video for user u in the current state
GenerateVideoResponse(u) ==
  IF ~UserExists(u)
    THEN Response("generate_video", u, 404, "User not found", Null)
  ELSE IF users[u].training_status # COMPLETED
    THEN Response("generate_video", u, 400, "User identity not trained. Status: " \o users[u].training_status, Null)
  ELSE Response("generate_video", u, 200, PENDING, JobKey(Cardinality(DOMAIN jobs) + 1))

\* A message of generate_video_task(job_id) as the queue delivers it
VideoMessage(job_id) ==
  [ job_id |-> job_id,
    pc |-> "queued",
    user_id |-> Null,
    product_image_path |-> Null,
    voice |-> Null,
    tts_voices |-> <<>>,
    stages |-> <<>>,
    compose |-> Null,
    upload |-> Null,
    video |-> Null,
    base |-> Null,
    s3_url |-> Null,
    result |-> Null ]

\* voice_sample: no sample in the request, a sample from which
\* create_user_voice makes a voice, or one for which it returns None
VoiceSamples == {"absent", "created", "rejected"}

generate_video(u, script_text, product_image, voice_sample) ==
  LET r == GenerateVideoResponse(u)
      job_id == r.payload
  IN  /\ nEvents < MaxEvents
      /\ nEvents' = nEvents + 1
      /\ response' = r
      /\ IF r.code = 200
           THEN /\ users' = IF voice_sample = "created"
                              THEN [ users EXCEPT ![u].voice_id = VoiceOf(u) ]
                              ELSE users
                /\ jobs' = [ x \in DOMAIN jobs \cup {job_id} |->
                             IF x = job_id
                               THEN job_doc(job_id, u, script_text,
                                            IF product_image THEN ProductPath(u, job_id)
                                                             ELSE Null)
                               ELSE jobs[x] ]
                /\ videoTasks' = Append(videoTasks, VideoMessage(job_id))
           ELSE UNCHANGED << users, jobs, videoTasks >>
      /\ UNCHANGED << settings, handlers, uploads, dataset, trainTasks >>

\* ---------------------------------------------------------- stage tasks

DefaultVoice == "21m00Tcm4TlvDq8ikWAM"

AudioPath(job_id) == "audio/" \o job_id \o ".wav"
RawPath(job_id) == "video_raw/" \o job_id \o ".mp4"
ComposedPath(job_id) == "video_raw/" \o job_id \o "_composed.mp4"
FinalPath(job_id) == "video_final/" \o job_id \o ".mp4"
S3Url(job_id) == "s3://bucket/" \o job_id \o ".mp4"

\* generate_audio passing the voice of the user on without the default
target_voice_id_NoDefault(voice_id) == voice_id

\* VoiceManager.generate_audio: the voice the speech is requested with
target_voice_id(voice_id) == IF voice_id = Null THEN DefaultVoice ELSE voice_id

\* ElevenLabsClient.generate_speech: one request.  outcome is "ok" (the audio
\* is written), "fail" (a RequestException: None is returned) or "raise"
\* (another exception, such as an OSError writing the file)
generate_speech(job_id, outcome) == IF outcome = "ok" THEN AudioPath(job_id) ELSE Null

\* line 146, retry_attempts or settings.ELEVENLABS_RETRY_ATTEMPTS.  The
\* optional argument is {} when the caller leaves it out and {n} when the
\* caller passes n; None and 0 both give the setting.
RetryAttempts(retry_attempts) ==
  IF retry_attempts = {} \/ retry_attempts = {0}
    THEN ELEVENLABS_RETRY_ATTEMPTS
    ELSE CHOOSE n \in retry_attempts : TRUE

\* the loop of line 149 running once more, range(retry_attempts + 2)
RECURSIVE SpeechAttempts_OneMore(_, _, _, _, _)
SpeechAttempts_OneMore(voice_id, job_id, outcomes, attempt, retry_attempts) ==
  LET outcome == outcomes[attempt + 1]
      voice == IF attempt > retry_attempts + 1 THEN DefaultVoice ELSE voice_id
      result == generate_speech(job_id, outcome)
      rest == SpeechAttempts_OneMore(voice_id, job_id, outcomes, attempt + 1, retry_attempts)
  IN  IF outcome = "raise"
        THEN [ audio |-> Null, voices |-> << voice >>, raised |-> TRUE ]
      ELSE IF result # Null \/ attempt > retry_attempts + 1
        THEN [ audio |-> result, voices |-> << voice >>, raised |-> FALSE ]
      ELSE [ rest EXCEPT !.voices = << voice >> \o @ ]

\* ElevenLabsClient.generate_speech_with_retry from the given attempt on:
\* attempts 0 .. retry_attempts with voice_id (lines 149-160), then one
\* request with the default voice (lines 164-168).  outcomes[k] is the
\* outcome of the k-th request.  The result is the audio path or None, the
\* voices requested in order, and whether an exception left the function.
RECURSIVE SpeechAttempts(_, _, _, _, _)
SpeechAttempts(voice_id, job_id, outcomes, attempt, retry_attempts) ==
  LET outcome == outcomes[attempt + 1]
      voice == IF attempt > retry_attempts THEN DefaultVoice ELSE voice_id
      result == generate_speech(job_id, outcome)
      rest == SpeechAttempts(voice_id, job_id, outcomes, attempt + 1, retry_attempts)
  IN  IF outcome = "raise"
        THEN [ audio |-> Null, voices |-> << voice >>, raised |-> TRUE ]
      ELSE IF result # Null \/ attempt > retry_attempts
        THEN [ audio |-> result, voices |-> << voice >>, raised |-> FALSE ]
      ELSE [ rest EXCEPT !.voices = << voice >> \o @ ]

generate_speech_with_retry(voice_id, job_id, outcomes, retry_attempts) ==
  SpeechAttempts(voice_id, job_id, outcomes, 0, RetryAttempts(retry_attempts))

\* The outcomes of the requests of one generate_speech_with_retry call: every
\* request before the first that does not fail fails, the later ones are not made
TtsOutcomes ==
  LET requests == 1..(ELEVENLABS_RETRY_ATTEMPTS + 2)
  IN  { [ i \in requests |-> IF i < k THEN "fail" ELSE last ] :
          k \in requests, last \in {"ok", "fail", "raise"} }

\* generate_tts_task without the check of lines 122-123: a None audio path is
\* returned to the caller
generate_tts_task_ReturnsNone(job_id, voice_id, outcomes) ==
  LET r == generate_speech_with_retry(target_voice_id(voice_id), job_id, outcomes, {})
  IN  [ audio |-> r.audio,
        voices |-> r.voices,
        error |-> IF r.raised THEN "OSError" ELSE Null ]

\* generate_tts_task (lines 118-127), called as a function: the audio path, or
\* the exception that self.retry() raises again.  error is its message.
generate_tts_task(job_id, voice_id, outcomes) ==
  LET r == generate_speech_with_retry(target_voice_id(voice_id), job_id, outcomes, {})
  IN  [ audio |-> r.audio,
        voices |-> r.voices,
        error |-> IF r.raised THEN "OSError"
                  ELSE IF r.audio = Null THEN "TTS generation failed"
                  ELSE Null ]

\* FacePreprocessor.get_best_face_image: a *.jpg of the dataset directory, or None
get_best_face_image(dir) == IF dir.jpg = {} THEN Null ELSE "face"

\* generate_talking_head_task (lines 143-165), called as a function: the raw
\* video, or the exception that self.retry() raises again.  outcome is what
\* SadTalkerWrapper.generate_video does: "ok", "none" (returns None) or "raise".
generate_talking_head_task(job_id, dir, audio_path, outcome) ==
  [ video |-> [ path |-> RawPath(job_id), base |-> "talking_head" ],
    error |-> IF get_best_face_image(dir) = Null THEN "No face image found for user"
              ELSE IF outcome = "none" THEN "Talking head generation failed"
              ELSE IF outcome = "raise" THEN "SadTalker generation failed"
              ELSE Null ]

\* compose_product_task returning what process_with_product returned, without
\* the fallback to its input: None when the composition fails
compose_product_task_NoFallback(video, product_image_path, job_id, outcome) ==
  IF product_image_path = Null THEN video
  ELSE IF outcome = "ok" THEN [ path |-> ComposedPath(job_id), base |-> "compose" ]
  ELSE [ path |-> Null, base |-> Null ]

\* compose_product_task: the video handed on.  outcome is what
\* ProductCompositor.process_with_product does: "ok" (a composed video),
\* "none" (returns None) or "raise".  A video is its path and the stage
\* whose output it is derived from.
compose_product_task(video, product_image_path, job_id, outcome) ==
  IF product_image_path = Null THEN video
  ELSE IF outcome = "ok" THEN [ path |-> ComposedPath(job_id), base |-> "compose" ]
  ELSE video

\* enhance_video_task: the four filters, then the move to VIDEO_FINAL_DIR;
\* any exception returns the input video
enhance_video_task(video, job_id, outcome) ==
  IF outcome = "ok" THEN [ path |-> FinalPath(job_id), base |-> video.base ]
  ELSE video

\* S3Client.__init__ and S3Client.upload_video: the URL, or None
S3ClientCreated == settings.AWS_ACCESS_KEY_ID /\ settings.AWS_SECRET_ACCESS_KEY

upload_video(job_id, outcome) ==
  IF ~S3ClientCreated \/ ~settings.S3_BUCKET_NAME THEN Null
  ELSE IF outcome = "ok" THEN S3Url(job_id)
  ELSE Null

\* upload_to_s3_task returning the URL it asked for without looking at what
\* upload_video returned
upload_to_s3_task_IgnoresResult(job_id, outcome) == S3Url(job_id)

\* upload_to_s3_task (lines 265-285): the URL, or None when upload_video
\* returns None or anything raises
upload_to_s3_task(job_id, outcome) ==
  IF outcome = "raise" THEN Null ELSE upload_video(job_id, outcome)

\* the guard of line 337 without its S3_BUCKET_NAME conjunct
S3Configured_NoBucket ==
  settings.AWS_ACCESS_KEY_ID /\ settings.AWS_SECRET_ACCESS_KEY

\* generate_video_task line 337
S3Configured ==
  settings.AWS_ACCESS_KEY_ID /\ settings.AWS_SECRET_ACCESS_KEY /\ settings.S3_BUCKET_NAME

\* --------------------------------------------------- generate_video_task

SetVideoTask(r, rec) == videoTasks' = [ videoTasks EXCEPT ![r] = rec ]

\* An execution that has returned: its locals are gone, its result is what
\* the task returned
Returned(R, result) == [ VideoMessage(R.job_id) EXCEPT !.pc = "done", !.result = result ]

SetJob(job_id, doc) ==
  IF job_id \in DOMAIN jobs THEN [ jobs EXCEPT ![job_id] = doc ] ELSE jobs

\* generate_video_task scheduling the task again when it finds no job
VideoSetProcessing_RetriesMissing(r) ==
  LET R == videoTasks[r]
      j == R.job_id
  IN  /\ R.pc = "queued"
      /\ IF j \notin DOMAIN jobs
           THEN /\ videoTasks' = Append([ videoTasks EXCEPT ![r] = Returned(R, "Job not found") ],
                                        VideoMessage(j))
                /\ UNCHANGED jobs
           ELSE /\ jobs' = [ jobs EXCEPT ![j].status = PROCESSING ]
                /\ SetVideoTask(r, [ R EXCEPT !.pc = "load_user",
                                              !.user_id = jobs[j].user_id,
                                              !.product_image_path = jobs[j].product_image_path ])
      /\ UNCHANGED << users, settings, handlers, uploads, dataset, trainTasks, response, nEvents >>

\* lines 303-310: find the job, set Processing
VideoSetProcessing(r) ==
  LET R == videoTasks[r]
      j == R.job_id
  IN  /\ R.pc = "queued"
      /\ IF j \notin DOMAIN jobs
           THEN /\ SetVideoTask(r, Returned(R, "Job not found"))
                /\ UNCHANGED jobs
           ELSE /\ jobs' = [ jobs EXCEPT ![j].status = PROCESSING ]
                /\ SetVideoTask(r, [ R EXCEPT !.pc = "load_user",
                                              !.user_id = jobs[j].user_id,
                                              !.product_image_path = jobs[j].product_image_path ])
      /\ UNCHANGED << users, settings, handlers, uploads, dataset, trainTasks, response, nEvents >>

StageOutcomes == {"ok", "none", "raise"}

\* generate_video_task enhancing the talking head before the composition
RunStages_EnhanceFirst(R, voice_id, dir, tts, head, compose, enhance, upload) ==
  LET j == R.job_id
      voice == target_voice_id(voice_id)
      speech == generate_tts_task(j, voice_id, tts)
      raw == generate_talking_head_task(j, dir, speech.audio, head)
      enhanced == enhance_video_task(raw.video, j, enhance)
      final == compose_product_task(enhanced, R.product_image_path, j, compose)
      s3_url == IF S3Configured THEN upload_to_s3_task(j, upload) ELSE Null
      composeStage == IF R.product_image_path # Null THEN <<"compose">> ELSE <<>>
      uploadStage == IF S3Configured THEN <<"upload">> ELSE <<>>
  IN  IF speech.error # Null
        THEN [ R EXCEPT !.pc = "write_failed", !.voice = voice,
                        !.tts_voices = speech.voices,
                        !.stages = <<"tts">>,
                        !.result = speech.error ]
      ELSE IF raw.error # Null
        THEN [ R EXCEPT !.pc = "write_failed", !.voice = voice,
                        !.tts_voices = speech.voices,
                        !.stages = <<"tts", "talking_head">>,
                        !.result = raw.error ]
      ELSE [ R EXCEPT !.pc = IF s3_url # Null THEN "write_s3" ELSE "write_completed",
                      !.voice = voice,
                      !.tts_voices = speech.voices,
                      !.stages = <<"tts", "talking_head", "enhance">> \o composeStage
                                   \o uploadStage,
                      !.compose = IF R.product_image_path # Null THEN compose ELSE Null,
                      !.upload = IF S3Configured THEN upload ELSE Null,
                      !.video = final.path,
                      !.base = final.base,
                      !.s3_url = s3_url ]

\* lines 327-344 for a user whose identity is Completed: the stage tasks,
\* called as functions.  self.retry() in a task that was called directly
\* raises the exception it is given, so a stage that fails raises into
\* generate_video_task.  The record returned is the execution after the stages.
RunStages(R, voice_id, dir, tts, head, compose, enhance, upload) ==
  LET j == R.job_id
      voice == target_voice_id(voice_id)
      speech == generate_tts_task(j, voice_id, tts)
      raw == generate_talking_head_task(j, dir, speech.audio, head)
      composed == compose_product_task(raw.video, R.product_image_path, j, compose)
      final == enhance_video_task(composed, j, enhance)
      s3_url == IF S3Configured THEN upload_to_s3_task(j, upload) ELSE Null
      composeStage == IF R.product_image_path # Null THEN <<"compose">> ELSE <<>>
      uploadStage == IF S3Configured THEN <<"upload">> ELSE <<>>
  IN  IF speech.error # Null
        THEN [ R EXCEPT !.pc = "write_failed", !.voice = voice,
                        !.tts_voices = speech.voices,
                        !.stages = <<"tts">>,
                        !.result = speech.error ]
      ELSE IF raw.error # Null
        THEN [ R EXCEPT !.pc = "write_failed", !.voice = voice,
                        !.tts_voices = speech.voices,
                        !.stages = <<"tts", "talking_head">>,
                        !.result = raw.error ]
      ELSE [ R EXCEPT !.pc = IF s3_url # Null THEN "write_s3" ELSE "write_completed",
                      !.voice = voice,
                      !.tts_voices = speech.voices,
                      !.stages = <<"tts", "talking_head">> \o composeStage
                                   \o <<"enhance">> \o uploadStage,
                      !.compose = IF R.product_image_path # Null THEN compose ELSE Null,
                      !.upload = IF S3Configured THEN upload ELSE Null,
                      !.video = final.path,
                      !.base = final.base,
                      !.s3_url = s3_url ]

\* The stage functions that are invoked and fail under the given outcomes
StageFailures(R, dir, tts, head, compose, enhance, upload) ==
  LET speech == generate_tts_task(R.job_id, Null, tts)
      ttsFailure == IF tts[1] # "ok" THEN 1 ELSE 0
  IN  IF speech.error # Null \/ get_best_face_image(dir) = Null THEN ttsFailure
      ELSE IF head # "ok" THEN ttsFailure + 1
      ELSE ttsFailure
           + (IF R.product_image_path # Null /\ compose # "ok" THEN 1 ELSE 0)
           + (IF enhance # "ok" THEN 1 ELSE 0)
           + (IF S3Configured /\ upload # "ok" THEN 1 ELSE 0)

\* the precondition without the check of the training status (lines 320-325)
UserCheck_NoStatusCheck(u) ==
  IF ~UserExists(u) THEN "User not found" ELSE Null

\* lines 312-325: the owning user's precondition; the reason it fails, or Null
UserCheck(u) ==
  IF ~UserExists(u) THEN "User not found"
  ELSE IF users[u].training_status # COMPLETED THEN "User identity not trained"
  ELSE Null

\* lines 312-344 under the given stage outcomes: load the user, check the
\* identity, run the stages
VideoRunStagesWith(r, tts, head, compose, enhance, upload) ==
  LET R == videoTasks[r]
      u == R.user_id
      failures == StageFailures(R, dataset[u], tts, head, compose, enhance, upload)
  IN  /\ R.pc = "load_user"
      /\ UserCheck(u) = Null
      /\ nEvents + failures <= MaxEvents
      /\ nEvents' = nEvents + failures
      /\ SetVideoTask(r, RunStages(R, users[u].voice_id, dataset[u],
                                   tts, head, compose, enhance, upload))
      /\ UNCHANGED << users, jobs, settings, handlers, uploads, dataset, trainTasks, response >>

\* lines 312-325: the user is absent or the identity is not Completed
VideoUserCheckFails(r) ==
  LET R == videoTasks[r]
  IN  /\ R.pc = "load_user"
      /\ UserCheck(R.user_id) # Null
      /\ SetVideoTask(r, [ R EXCEPT !.pc = "write_failed", !.result = UserCheck(R.user_id) ])
      /\ UNCHANGED << users, jobs, settings, handlers, uploads, dataset, trainTasks, response, nEvents >>

\* Whether generate_video_task reaches the call of the stage under the
\* outcomes of the stages before it (lines 327-344): the talking head needs
\* the audio and a face image, the later stages need the talking head, the
\* composition a product image and the upload a configured S3
StageInvoked(R, dir, tts, head, stage) ==
  LET headRuns == /\ generate_tts_task(R.job_id, Null, tts).error = Null
                  /\ get_best_face_image(dir) # Null
  IN  CASE stage = "head" -> headRuns
        [] stage = "compose" -> headRuns /\ head = "ok" /\ R.product_image_path # Null
        [] stage = "enhance" -> headRuns /\ head = "ok"
        [] stage = "upload" -> headRuns /\ head = "ok" /\ S3Configured

\* The outcomes a stage can have: a stage that is not invoked has none to draw
OutcomesOf(invoked, outcomes) == IF invoked THEN outcomes ELSE {"ok"}

\* lines 312-344: load the user, check the identity, run the stages
VideoRunStages(r) ==
  \/ VideoUserCheckFails(r)
  \/ LET R == videoTasks[r]
         dir == dataset[R.user_id]
     IN  /\ R.pc = "load_user"
         /\ UserCheck(R.user_id) = Null
         /\ \E tts \in TtsOutcomes :
            \E head \in OutcomesOf(StageInvoked(R, dir, tts, "ok", "head"), StageOutcomes) :
            \E compose \in OutcomesOf(StageInvoked(R, dir, tts, head, "compose"), StageOutcomes),
               enhance \in OutcomesOf(StageInvoked(R, dir, tts, head, "enhance"), {"ok", "raise"}),
               upload \in OutcomesOf(StageInvoked(R, dir, tts, head, "upload"), StageOutcomes) :
              VideoRunStagesWith(r, tts, head, compose, enhance, upload)

\* upload_to_s3_task lines 273-279
VideoWriteS3(r) ==
  LET R == videoTasks[r]
      j == R.job_id
  IN  /\ R.pc = "write_s3"
      /\ jobs' = SetJob(j, [ jobs[j] EXCEPT !.s3_url = R.s3_url ])
      /\ SetVideoTask(r, [ R EXCEPT !.pc = "write_completed" ])
      /\ UNCHANGED << users, settings, handlers, uploads, dataset, trainTasks, response, nEvents >>

\* the Completed write split in two updates, of which this is the first:
\* status and completed_at, the locations left to the second
VideoWriteCompleted_StatusFirst(r) ==
  LET R == videoTasks[r]
      j == R.job_id
  IN  /\ R.pc = "write_completed"
      /\ jobs' = SetJob(j, [ jobs[j] EXCEPT !.status = COMPLETED, !.completed_at = Stamp ])
      /\ SetVideoTask(r, Returned(R, COMPLETED))
      /\ UNCHANGED << users, settings, handlers, uploads, dataset, trainTasks, response, nEvents >>

\* lines 346-356
VideoWriteCompleted(r) ==
  LET R == videoTasks[r]
      j == R.job_id
  IN  /\ R.pc = "write_completed"
      /\ jobs' = SetJob(j, [ jobs[j] EXCEPT !.video_path = R.video,
                                            !.s3_url = R.s3_url,
                                            !.status = COMPLETED,
                                            !.completed_at = Stamp ])
      /\ SetVideoTask(r, Returned(R, COMPLETED))
      /\ UNCHANGED << users, settings, handlers, uploads, dataset, trainTasks, response, nEvents >>

\* the failure branches returning without their write of the Job
VideoWriteFailed_NoWrite(r) ==
  LET R == videoTasks[r]
  IN  /\ R.pc = "write_failed"
      /\ SetVideoTask(r, Returned(R, FAILED))
      /\ UNCHANGED << users, jobs, settings, handlers, uploads, dataset, trainTasks, response, nEvents >>

\* lines 314-318, 321-325, 358-366
VideoWriteFailed(r) ==
  LET R == videoTasks[r]
      j == R.job_id
  IN  /\ R.pc = "write_failed"
      /\ jobs' = SetJob(j, [ jobs[j] EXCEPT !.status = FAILED, !.error_message = R.result ])
      /\ SetVideoTask(r, Returned(R, FAILED))
      /\ UNCHANGED << users, settings, handlers, uploads, dataset, trainTasks, response, nEvents >>

generate_video_task(r) ==
  \/ VideoSetProcessing(r)
  \/ VideoRunStages(r)
  \/ VideoWriteS3(r)
  \/ VideoWriteCompleted(r)
  \/ VideoWriteFailed(r)

\* The queue delivers at least once: a message that was delivered is
\* delivered again.
Redeliver(r) ==
  /\ videoTasks[r].pc # "queued"
  /\ nEvents < MaxEvents
  /\ nEvents' = nEvents + 1
  /\ videoTasks' = Append(videoTasks, VideoMessage(videoTasks[r].job_id))
  /\ UNCHANGED << users, jobs, settings, handlers, uploads, dataset, trainTasks, response >>

\* Job keys for which no record is ever inserted
UnknownJobIds == { "job0" }

\* ------------------------------------------------------- download_video

\* S3Client.extract_key_from_url for the URLs upload_video builds,
\* s3://<bucket>/<key>: what follows the first "/" after the bucket
extract_key_from_url(s3_url) ==
  LET keys == { k \in { j \o ".mp4" : j \in DOMAIN jobs } : "s3://bucket/" \o k = s3_url }
  IN  IF keys = {} THEN Null ELSE CHOOSE k \in keys : TRUE

\* S3Client.generate_presigned_url: None without client or bucket and on a
\* ClientError (outcome "none")
generate_presigned_url(s3_key, outcome) ==
  IF ~S3ClientCreated \/ ~settings.S3_BUCKET_NAME THEN Null
  ELSE IF outcome = "ok" THEN "https://bucket.s3.amazonaws.com/" \o s3_key \o "?X-Amz-Signature"
  ELSE Null

\* download_video without the check of lines 310-312
DownloadResponse_NoStatusCheck(job_id, presign, file_exists) ==
  IF job_id \notin DOMAIN jobs
    THEN Response("download_video", job_id, 404, "Job not found", Null)
  ELSE LET job == jobs[job_id]
           s3_key == IF job.s3_url # Null THEN extract_key_from_url(job.s3_url) ELSE Null
           presigned_url == IF s3_key # Null THEN generate_presigned_url(s3_key, presign)
                                              ELSE Null
       IN  IF presigned_url # Null
             THEN Response("download_video", job_id, 200, "download_url", presigned_url)
           ELSE IF job.video_path # Null /\ file_exists
             THEN Response("download_video", job_id, 200, "file", job.video_path)
           ELSE Response("download_video", job_id, 404, "Video file not found", Null)

\* The response of the handler download_video (lines 306-330).  presign is
\* the outcome of the signing, file_exists whether os.path.exists(video_path).
DownloadResponse(job_id, presign, file_exists) ==
  IF job_id \notin DOMAIN jobs
    THEN Response("download_video", job_id, 404, "Job not found", Null)
  ELSE IF jobs[job_id].status # COMPLETED
    THEN Response("download_video", job_id, 400,
                  "Job not completed. Status: " \o jobs[job_id].status, Null)
  ELSE LET job == jobs[job_id]
           s3_key == IF job.s3_url # Null THEN extract_key_from_url(job.s3_url) ELSE Null
           presigned_url == IF s3_key # Null THEN generate_presigned_url(s3_key, presign)
                                              ELSE Null
       IN  IF presigned_url # Null
             THEN Response("download_video", job_id, 200, "download_url", presigned_url)
           ELSE IF job.video_path # Null /\ file_exists
             THEN Response("download_video", job_id, 200, "file", job.video_path)
           ELSE Response("download_video", job_id, 404, "Video file not found", Null)

download_video(job_id, presign, file_exists) ==
  /\ nEvents < MaxEvents
  /\ nEvents' = nEvents + 1
  /\ response' = DownloadResponse(job_id, presign, file_exists)
  /\ UNCHANGED << users, jobs, settings, handlers, uploads, dataset, trainTasks, videoTasks >>

\* A generate_video_task message for a job key without a record: the task is
\* registered by name, and whoever can reach the broker can send it
SendGenerateVideoTask(job_id) ==
  /\ job_id \notin DOMAIN jobs
  /\ nEvents < MaxEvents
  /\ nEvents' = nEvents + 1
  /\ videoTasks' = Append(videoTasks, VideoMessage(job_id))
  /\ UNCHANGED << users, jobs, settings, handlers, uploads, dataset, trainTasks, response >>

\* ------------------------------------------------------------ behaviours

\* Settings: each of the three S3 settings is set or left at its default None
SettingsChoices ==
  [ AWS_ACCESS_KEY_ID : BOOLEAN, AWS_SECRET_ACCESS_KEY : BOOLEAN, S3_BUCKET_NAME : BOOLEAN ]

Init ==
  /\ users = << >>
  /\ jobs = << >>
  /\ settings \in SettingsChoices
  /\ uploads = [ u \in UserIds |-> NoDirectory ]
  /\ dataset = [ u \in UserIds |-> [ jpg |-> {}, txt |-> {} ] ]
  /\ trainTasks = << >>
  /\ videoTasks = << >>
  /\ handlers = << >>
  /\ response = Response("none", Null, 0, Null, Null)
  /\ nEvents = 0

UploadPhotos == \E u \in UserIds, photos \in PhotoBatches : upload_photos(u, photos)
TrainIdentity == \E u \in UserIds : train_identity(u)
TrainIdentityTask == \E t \in DOMAIN trainTasks : train_identity_task(t)
GenerateVideo ==
  \E u \in UserIds, product_image \in BOOLEAN, voice_sample \in VoiceSamples :
    generate_video(u, "Hello world", product_image, voice_sample)
GenerateVideoTask == \E r \in DOMAIN videoTasks : generate_video_task(r)
RedeliverGenerateVideo == \E r \in DOMAIN videoTasks : Redeliver(r)
SendUnknownJob == \E job_id \in UnknownJobIds : SendGenerateVideoTask(job_id)
DownloadVideo ==
  \E job_id \in DOMAIN jobs \cup UnknownJobIds, presign \in {"ok", "none"},
     file_exists \in BOOLEAN :
    download_video(job_id, presign, file_exists)

Next ==
  \/ UploadPhotos
  \/ TrainIdentity
  \/ TrainIdentityTask
  \/ GenerateVideo
  \/ GenerateVideoTask
  \/ RedeliverGenerateVideo
  \/ SendUnknownJob
  \/ DownloadVideo

Spec == Init /\ [][Next]_vars

\* ------------------------------------------------- the end-to-end scenario

\* No S3 setting is set; user u1 uploads three images of which two show a
\* face, submits one training request and then Jobs without a product image;
\* every stage function succeeds and the workers run the queued tasks.
AllRequestsOk == [ i \in 1..(ELEVENLABS_RETRY_ATTEMPTS + 2) |-> "ok" ]

InitE2E ==
  /\ Init
  /\ settings = [ AWS_ACCESS_KEY_ID |-> FALSE, AWS_SECRET_ACCESS_KEY |-> FALSE,
                  S3_BUCKET_NAME |-> FALSE ]

UploadThreePhotos ==
  /\ uploads["u1"] = NoDirectory
  /\ upload_photos("u1", << "face", "noface", "face" >>)

TrainOnce ==
  /\ trainTasks = << >>
  /\ train_identity("u1")

GenerateWithoutProduct ==
  \E voice_sample \in VoiceSamples : generate_video("u1", "Hello world", FALSE, voice_sample)

TrainIdentityTaskOk ==
  \E t \in DOMAIN trainTasks :
    \/ TrainSetProcessing(t)
    \/ TrainPreprocess(t)
    \/ TrainCaption(t)
    \/ TrainValidateAndTrainWith(t, TRUE)
    \/ TrainWriteCompleted(t)

GenerateVideoTaskOk ==
  \E r \in DOMAIN videoTasks :
    \/ VideoSetProcessing(r)
    \/ VideoRunStagesWith(r, AllRequestsOk, "ok", "ok", "ok", "ok")
    \/ VideoWriteCompleted(r)

NextE2E ==
  \/ UploadThreePhotos
  \/ TrainOnce
  \/ GenerateWithoutProduct
  \/ TrainIdentityTaskOk
  \/ GenerateVideoTaskOk

SpecE2E ==
  /\ InitE2E
  /\ [][NextE2E]_vars
  /\ WF_vars(TrainIdentityTaskOk)
  /\ WF_vars(GenerateVideoTaskOk)

\* ------------------------------------------------ Jobs of a trained user

\* The state after user u1 uploaded three images, two of them with a face,
\* and one train_identity_task ran to Completed; no Job was submitted yet.
\* The events counted from here on are those of one Job: its submission,
\* the failures of its stage functions and the repeated deliveries of its
\* generate_video_task message.
InitTrained ==
  /\ users = [ u \in {"u1"} |->
               [ user_doc(u, COMPLETED) EXCEPT !.lora_path = LoraPath(u) ] ]
  /\ jobs = << >>
  /\ settings \in SettingsChoices
  /\ uploads = [ u \in UserIds |-> << "face", "noface", "face" >> ]
  /\ dataset = [ u \in UserIds |-> [ jpg |-> {1, 3}, txt |-> {1, 3} ] ]
  /\ trainTasks = << Finished(TrainMessage("u1", 3), COMPLETED) >>
  /\ videoTasks = << >>
  /\ handlers = << >>
  /\ response = Response("train_identity", "u1", 200, "processing", Null)
  /\ nEvents = 0

\* The user submits one Job
SubmitOneJob == jobs = << >> /\ GenerateVideo

NextTrained ==
  \/ SubmitOneJob
  \/ GenerateVideoTask
  \/ RedeliverGenerateVideo

SpecTrained == InitTrained /\ [][NextTrained]_vars

\* --------------------------------------------- workers that keep running

\* The state after user u1 uploaded a batch of which at least one file was
\* saved, which is the first event.  Either no S3 setting is set or all are.
InitUploaded ==
  /\ users = [ u \in {"u1"} |-> user_doc(u, PENDING) ]
  /\ jobs = << >>
  /\ settings \in { c \in SettingsChoices :
                      /\ c.AWS_ACCESS_KEY_ID = c.S3_BUCKET_NAME
                      /\ c.AWS_SECRET_ACCESS_KEY = c.S3_BUCKET_NAME }
  /\ uploads \in [ UserIds -> { SavedPrefix(photos) : photos \in PhotoBatches } \ { << >> } ]
  /\ dataset = [ u \in UserIds |-> [ jpg |-> {}, txt |-> {} ] ]
  /\ trainTasks = << >>
  /\ videoTasks = << >>
  /\ handlers = << >>
  /\ response = Response("upload_photos", "u1", 200, "ok", Null)
  /\ nEvents = 1

\* Requests, and the workers executing the queued tasks; every message is
\* delivered once
NextLive ==
  \/ TrainIdentity
  \/ TrainIdentityTask
  \/ GenerateVideo
  \/ GenerateVideoTask

\* No worker crashes and every stage function returns: a task that can take
\* its next step takes it
SpecLive ==
  /\ InitUploaded
  /\ [][NextLive]_vars
  /\ WF_vars(TrainIdentityTask)
  /\ WF_vars(GenerateVideoTask)

\* ------------------------------------------------------- the time limits

\* celery_app.conf task_time_limit (line 22): when a task has run for the
\* hard limit, the worker's pool kills the child process that executes it
\* (SIGKILL) and reports TimeLimitExceeded to the result backend.  No code
\* of the task runs any more: neither an except clause nor a write.
\* task_soft_time_limit (line 23) raises SoftTimeLimitExceeded, an Exception,
\* inside the function that is executing: that is the outcome "raise" of the
\* stage that is running.
TimeLimitExceeded(r) ==
  LET R == videoTasks[r]
  IN  /\ R.pc \in { "load_user", "write_s3", "write_completed", "write_failed" }
      /\ nEvents < MaxEvents
      /\ nEvents' = nEvents + 1
      /\ SetVideoTask(r, [ Returned(R, "TimeLimitExceeded") EXCEPT !.pc = "killed" ])
      /\ UNCHANGED << users, jobs, settings, handlers, uploads, dataset, trainTasks, response >>

TaskTimeLimit == \E r \in DOMAIN videoTasks : TimeLimitExceeded(r)

\* One Job of a trained user whose task may run into the hard limit
NextTimeLimit ==
  \/ SubmitOneJob
  \/ GenerateVideoTask
  \/ TaskTimeLimit

SpecTimeLimit == InitTrained /\ [][NextTimeLimit]_vars

\* ------------------------------------------- the enhancement stage in detail

\* enhance_video_task lines 209-238: the four filters in the order of the code
EnhanceFilters ==
  << "restore_video", "upscale_to_resolution", "smooth_video", "correct_video" >>

\* What one filter call does: "ok" (a new file is written and its path
\* returned), "same" (the input path is returned: FaceRestorer without a
\* model), "none" (None is returned: the video cannot be opened) or "raise"
FilterOutcomes == { "ok", "same", "none", "raise" }

\* The output path of a filter, video_path.replace('.mp4', <suffix> + '.mp4')
FilterSuffix(filter) ==
  CASE filter = "restore_video" -> "_restored"
    [] filter = "upscale_to_resolution" -> "_1280x720"
    [] filter = "smooth_video" -> "_smoothed"
    [] filter = "correct_video" -> "_corrected"

\* The paths without ".mp4" that the working video of a job can have: the
\* raw or the composed video, followed by the suffixes of filters in order
WorkingStems(job_id) ==
  { base \o s1 \o s2 \o s3 \o s4 :
      base \in { "video_raw/" \o job_id, "video_raw/" \o job_id \o "_composed" },
      s1 \in { "", FilterSuffix(EnhanceFilters[1]) },
      s2 \in { "", FilterSuffix(EnhanceFilters[2]) },
      s3 \in { "", FilterSuffix(EnhanceFilters[3]) },
      s4 \in { "", FilterSuffix(EnhanceFilters[4]) } }

\* video_path.replace('.mp4', suffix + '.mp4')
OutputPath(video_path, job_id, filter) ==
  LET stem == CHOOSE x \in WorkingStems(job_id) : x \o ".mp4" = video_path
  IN  stem \o FilterSuffix(filter) \o ".mp4"

\* The value one filter call returns (None is Null); a call that raises
\* returns nothing
FilterResult(current_video, job_id, filter, outcome) ==
  IF outcome = "ok" THEN OutputPath(current_video, job_id, filter)
  ELSE IF outcome = "same" THEN current_video
  ELSE Null

\* lines 210-238 from the i-th filter on: each filter is called on
\* current_video, and its result replaces current_video when it is neither
\* None nor current_video.  An exception ends the sequence.  calls lists the
\* filters called with the video each was called on.
RECURSIVE RunFilters(_, _, _, _)
RunFilters(current_video, job_id, outcomes, i) ==
  IF i > Len(EnhanceFilters)
    THEN [ current_video |-> current_video, calls |-> <<>>, raised |-> FALSE ]
  ELSE
    LET filter == EnhanceFilters[i]
        call == [ filter |-> filter, input |-> current_video ]
        result == FilterResult(current_video, job_id, filter, outcomes[i])
        next == IF result # Null /\ result # current_video THEN result ELSE current_video
        rest == RunFilters(next, job_id, outcomes, i + 1)
    IN  IF outcomes[i] = "raise"
          THEN [ current_video |-> current_video, calls |-> << call >>, raised |-> TRUE ]
          ELSE [ rest EXCEPT !.calls = << call >> \o @ ]

\* enhance_video_task without its except clause (lines 248-250): an
\* exception of a filter or of the move leaves the task
EnhanceVideo_NoExcept(video_path, job_id, outcomes, move) ==
  LET run == RunFilters(video_path, job_id, outcomes, 1)
      raised == run.raised \/ move = "raise"
  IN  [ path |-> IF raised THEN Null ELSE FinalPath(job_id),
        calls |-> run.calls,
        current_video |-> run.current_video,
        moved |-> ~raised,
        raised |-> raised,
        error |-> IF raised THEN "Video enhancement failed" ELSE Null ]

\* enhance_video_task lines 209-250: the filters, then shutil.move of
\* current_video to VIDEO_FINAL_DIR/<job_id>.mp4 (move is "ok" or "raise");
\* any exception returns the video_path the task was called with.  error is
\* the exception that leaves the task: none
EnhanceVideo(video_path, job_id, outcomes, move) ==
  LET run == RunFilters(video_path, job_id, outcomes, 1)
      raised == run.raised \/ move = "raise"
  IN  [ path |-> IF raised THEN video_path ELSE FinalPath(job_id),
        calls |-> run.calls,
        current_video |-> run.current_video,
        moved |-> ~raised,
        raised |-> raised,
        error |-> Null ]

\* generate_video_task lines 333-344 of an execution whose speech, talking
\* head and composition calls have returned: enhance_video_task, then the
\* upload when S3 is configured; an exception that leaves enhance_video_task
\* reaches the except block of lines 358-366.  The field enhance keeps the
\* run of the filters with the video the task was called with as its path.
EnhanceAndUpload(r, outcomes, move, upload) ==
  LET R == videoTasks[r]
      j == R.job_id
      e == EnhanceVideo(R.video, j, outcomes, move)
      s3_url == IF S3Configured THEN upload_to_s3_task(j, upload) ELSE Null
  IN  /\ R.pc = "enhance"
      /\ IF e.error # Null
           THEN SetVideoTask(r, [ R EXCEPT !.pc = "write_failed",
                                           !.stages = @ \o <<"enhance">>,
                                           !.result = e.error,
                                           !.enhance = [ e EXCEPT !.path = R.video ] ])
           ELSE SetVideoTask(r, [ R EXCEPT
                  !.pc = IF s3_url # Null THEN "write_s3" ELSE "write_completed",
                  !.stages = @ \o <<"enhance">>
                               \o (IF S3Configured THEN <<"upload">> ELSE <<>>),
                  !.upload = IF S3Configured THEN upload ELSE Null,
                  !.video = e.path,
                  !.s3_url = s3_url,
                  !.enhance = [ e EXCEPT !.path = R.video ] ])
      /\ UNCHANGED << users, jobs, settings, handlers, uploads, dataset, trainTasks, response, nEvents >>

\* An execution of generate_video_task that stands before the call of
\* enhance_video_task (line 333) with the video the earlier stages returned
BeforeEnhance(job, video) ==
  [ enhance |-> Null ] @@
  [ VideoMessage(job.job_id) EXCEPT
      !.pc = "enhance",
      !.user_id = job.user_id,
      !.product_image_path = job.product_image_path,
      !.voice = DefaultVoice,
      !.tts_voices = << DefaultVoice >>,
      !.stages = <<"tts", "talking_head">>
                   \o (IF job.product_image_path # Null THEN <<"compose">> ELSE <<>>),
      !.compose = IF job.product_image_path = Null THEN Null
                  ELSE IF video.base = "compose" THEN "ok" ELSE "none",
      !.video = video.path,
      !.base = video.base ]

\* The state in which the worker has run generate_video_task for job1 of a
\* trained user up to line 331: the Job is Processing, the talking head and,
\* for a Job with a product image, the composition have returned their video
InitEnhance ==
  /\ users = [ u \in {"u1"} |->
               [ user_doc(u, COMPLETED) EXCEPT !.lora_path = LoraPath(u) ] ]
  /\ settings \in SettingsChoices
  /\ uploads = [ u \in UserIds |-> << "face" >> ]
  /\ dataset = [ u \in UserIds |-> [ jpg |-> {1}, txt |-> {1} ] ]
  /\ trainTasks = << >>
  /\ response = Response("none", Null, 0, Null, Null)
  /\ nEvents = 0
  /\ \E product_image \in BOOLEAN, compose \in StageOutcomes :
       LET job == [ job_doc("job1", "u1", "Hello world",
                            IF product_image THEN ProductPath("u1", "job1") ELSE Null)
                    EXCEPT !.status = PROCESSING ]
           raw == [ path |-> RawPath("job1"), base |-> "talking_head" ]
           video == compose_product_task(raw, job.product_image_path, "job1", compose)
       IN  /\ jobs = [ j \in {"job1"} |-> job ]
           /\ videoTasks = << BeforeEnhance(job, video) >>
           /\ handlers = << >>

EnhanceStage ==
  \E r \in DOMAIN videoTasks, outcomes \in [ DOMAIN EnhanceFilters -> FilterOutcomes ],
     move \in { "ok", "raise" }, upload \in StageOutcomes :
    EnhanceAndUpload(r, outcomes, move, upload)

WriteAfterEnhance ==
  \E r \in DOMAIN videoTasks : VideoWriteS3(r) \/ VideoWriteCompleted(r) \/ VideoWriteFailed(r)

NextEnhance == EnhanceStage \/ WriteAfterEnhance

SpecEnhance == InitEnhance /\ [][NextEnhance]_vars

\* ------------------------------------------------------------ two users

Tenants == {"u1", "u2"}

\* Both users uploaded three images, two of them with a face.  The identity
\* of u1 is trained, that of u2 is not; no S3 setting is set.
InitTwoUsers ==
  /\ users = [ u \in Tenants |->
               IF u = "u1" THEN [ user_doc(u, COMPLETED) EXCEPT !.lora_path = LoraPath(u) ]
                           ELSE user_doc(u, PENDING) ]
  /\ jobs = << >>
  /\ settings = [ AWS_ACCESS_KEY_ID |-> FALSE, AWS_SECRET_ACCESS_KEY |-> FALSE,
                  S3_BUCKET_NAME |-> FALSE ]
  /\ uploads = [ u \in Tenants |-> << "face", "noface", "face" >> ]
  /\ dataset = [ u \in Tenants |->
                 IF u = "u1" THEN [ jpg |-> {1, 3}, txt |-> {1, 3} ]
                             ELSE [ jpg |-> {}, txt |-> {} ] ]
  /\ trainTasks = << Finished(TrainMessage("u1", 3), COMPLETED) >>
  /\ videoTasks = << >>
  /\ handlers = << >>
  /\ response = Response("upload_photos", "u2", 200, "ok", Null)
  /\ nEvents = 0

TrainIdentityOfTenant == \E u \in Tenants : train_identity(u)
GenerateVideoOfTenant ==
  \E u \in Tenants : generate_video(u, "Hello world", FALSE, "absent")

NextTwoUsers ==
  \/ TrainIdentityOfTenant
  \/ TrainIdentityTask
  \/ GenerateVideoOfTenant
  \/ GenerateVideoTask

SpecTwoUsers == InitTwoUsers /\ [][NextTwoUsers]_vars

\* ------------------------------------------------------ the status API

\* get_training_status (lines 150-160): the status and lora_path of the user
get_training_status(u) ==
  /\ nEvents < MaxEvents
  /\ nEvents' = nEvents + 1
  /\ response' =
       IF ~UserExists(u)
         THEN Response("get_training_status", u, 404, "User not found", Null)
         ELSE Response("get_training_status", u, 200, users[u].training_status,
                       users[u].lora_path)
  /\ UNCHANGED << users, jobs, settings, handlers, uploads, dataset, trainTasks, videoTasks >>

\* get_job_status (lines 272-289): of the fields returned, status and video_path
get_job_status(job_id) ==
  /\ nEvents < MaxEvents
  /\ nEvents' = nEvents + 1
  /\ response' =
       IF job_id \notin DOMAIN jobs
         THEN Response("get_job_status", job_id, 404, "Job not found", Null)
         ELSE Response("get_job_status", job_id, 200, jobs[job_id].status,
                       jobs[job_id].video_path)
  /\ UNCHANGED << users, jobs, settings, handlers, uploads, dataset, trainTasks, videoTasks >>

GetTrainingStatus == \E u \in UserIds : get_training_status(u)
GetJobStatus == \E job_id \in DOMAIN jobs \cup UnknownJobIds : get_job_status(job_id)

\* Every handler of the API and both tasks, after the first upload
NextRead ==
  \/ UploadPhotos
  \/ TrainIdentity
  \/ TrainIdentityTask
  \/ GenerateVideo
  \/ GenerateVideoTask
  \/ GetTrainingStatus
  \/ GetJobStatus
  \/ DownloadVideo

SpecRead == InitUploaded /\ [][NextRead]_vars

\* ------------------------------------------- the users collection in detail

\* The handler upload_photos and the task train_identity_task both look the
\* user up with find_one and insert a document when none is found; they run
\* in different processes, so the two calls of one execution are separate
\* steps and other executions act between them.  A document of the
\* collection is kept under its _id: the first document with a user_id under
\* the user_id itself (what find_one and update_one match first), a further
\* document with the same user_id under user_id#n.

\* init_db with create_index("user_id") lacking unique=True
init_db_NotUnique == [ users |-> {}, jobs |-> {"job_id"} ]

\* init_db: the fields that carry a unique index, per collection
init_db == [ users |-> {"user_id"}, jobs |-> {"job_id"} ]

\* The indexes of the running store: the application calls init_db when it
\* starts, before it serves a request
UniqueIndexes == init_db

\* The _ids of the documents that match {"user_id": u}
DocumentsOf(u) == { k \in DOMAIN users : users[k].user_id = u }

\* The _id a new document with user_id u gets
DocumentId(u) ==
  IF DocumentsOf(u) = {} THEN u ELSE u \o "#" \o ToString(Cardinality(DocumentsOf(u)))

\* insert_one raises DuplicateKeyError when the unique index holds the key
DuplicateKeyError(doc) ==
  "user_id" \in UniqueIndexes.users /\ DocumentsOf(doc.user_id) # {}

\* insert_one(doc) that does not raise
insert_one(doc) ==
  [ k \in DOMAIN users \cup { DocumentId(doc.user_id) } |->
      IF k = DocumentId(doc.user_id) THEN doc ELSE users[k] ]

\* A request upload-photos that the server has received
UploadRequest(u, photos) == [ user_id |-> u, photos |-> photos, pc |-> "find_one" ]

SetHandler(h, pc) == handlers' = [ handlers EXCEPT ![h].pc = pc ]

\* lines 51-52: a request with at least one photo enters the handler
ReceiveUploadPhotos(u, photos) ==
  /\ Len(photos) > 0
  /\ nEvents < MaxEvents
  /\ nEvents' = nEvents + 1
  /\ handlers' = Append(handlers, UploadRequest(u, photos))
  /\ UNCHANGED << users, jobs, settings, uploads, dataset, trainTasks, videoTasks, response >>

\* lines 54-56
UploadFindOne(h) ==
  LET H == handlers[h]
  IN  /\ H.pc = "find_one"
      /\ SetHandler(h, IF UserExists(H.user_id) THEN "save" ELSE "insert_one")
      /\ UNCHANGED << users, jobs, settings, uploads, dataset, trainTasks, videoTasks,
                      response, nEvents >>

\* line 57; DuplicateKeyError leaves the handler: the server answers 500
UploadInsertOne(h) ==
  LET H == handlers[h]
      doc == user_doc(H.user_id, PENDING)
  IN  /\ H.pc = "insert_one"
      /\ IF DuplicateKeyError(doc)
           THEN /\ SetHandler(h, "done")
                /\ response' = Response("upload_photos", H.user_id, 500, "DuplicateKeyError", Null)
                /\ UNCHANGED users
           ELSE /\ SetHandler(h, "save")
                /\ users' = insert_one(doc)
                /\ UNCHANGED response
      /\ UNCHANGED << jobs, settings, uploads, dataset, trainTasks, videoTasks, nEvents >>

\* lines 59-84
UploadSave(h) ==
  LET H == handlers[h]
      u == H.user_id
  IN  /\ H.pc = "save"
      /\ SetHandler(h, "done")
      /\ uploads' = [ uploads EXCEPT ![u] = WriteUploads(uploads[u], SavedPrefix(H.photos)) ]
      /\ response' =
           IF Len(SavedPrefix(H.photos)) = Len(H.photos)
             THEN Response("upload_photos", u, 200, "ok", Null)
             ELSE Response("upload_photos", u, 400, "File is not an image", Null)
      /\ UNCHANGED << users, jobs, settings, dataset, trainTasks, videoTasks, nEvents >>

\* line 45
TaskFindOne(t) ==
  LET T == trainTasks[t]
  IN  /\ T.pc = "queued"
      /\ SetTask(t, [ T EXCEPT !.pc = IF UserExists(T.user_id) THEN "update_one"
                                                                ELSE "insert_one" ])
      /\ UNCHANGED << users, jobs, settings, handlers, uploads, dataset, videoTasks,
                      response, nEvents >>

\* lines 46-47; DuplicateKeyError is caught by the except clause of line 97
TaskInsertOne(t) ==
  LET T == trainTasks[t]
      doc == user_doc(T.user_id, PROCESSING)
  IN  /\ T.pc = "insert_one"
      /\ IF DuplicateKeyError(doc)
           THEN /\ SetTask(t, [ T EXCEPT !.pc = "except" ])
                /\ UNCHANGED users
           ELSE /\ SetTask(t, [ T EXCEPT !.pc = "preprocess" ])
                /\ users' = insert_one(doc)
      /\ UNCHANGED << jobs, settings, handlers, uploads, dataset, videoTasks, response, nEvents >>

\* lines 48-52
TaskUpdateOne(t) ==
  LET T == trainTasks[t]
  IN  /\ T.pc = "update_one"
      /\ users' = SetTrainingStatus(T.user_id, PROCESSING)
      /\ SetTask(t, [ T EXCEPT !.pc = "preprocess" ])
      /\ UNCHANGED << jobs, settings, handlers, uploads, dataset, videoTasks, response, nEvents >>

\* A producer other than the handler train_identity sends the task for a user
\* and one image path
SendTrainIdentityTask(u) ==
  /\ nEvents < MaxEvents
  /\ nEvents' = nEvents + 1
  /\ trainTasks' = Append(trainTasks, TrainMessage(u, 1))
  /\ UNCHANGED << users, jobs, settings, handlers, uploads, dataset, videoTasks, response >>

\* No S3 setting is set: training does not read them
InitStore == Init /\ settings = [ AWS_ACCESS_KEY_ID |-> FALSE, AWS_SECRET_ACCESS_KEY |-> FALSE,
                                  S3_BUCKET_NAME |-> FALSE ]

\* The batches the clients of this scenario upload: one that is saved whole,
\* and one whose first file is refused, which leaves an empty directory
StoreBatches == { <<"face", "noface", "face">>, <<"notimage", "face">> }

ReceiveUpload == \E u \in UserIds, photos \in StoreBatches : ReceiveUploadPhotos(u, photos)
UploadPhotosStep ==
  \E h \in DOMAIN handlers : UploadFindOne(h) \/ UploadInsertOne(h) \/ UploadSave(h)
SendTrainTask == \E u \in UserIds : SendTrainIdentityTask(u)
\* The task up to its Processing write, and the except clause that a failed
\* insert_one enters; the later steps of the task insert no document
TrainIdentityTaskStep ==
  \E t \in DOMAIN trainTasks :
    \/ TaskFindOne(t)
    \/ TaskInsertOne(t)
    \/ TaskUpdateOne(t)
    \/ TrainExcept(t)

NextStore ==
  \/ ReceiveUpload
  \/ UploadPhotosStep
  \/ TrainIdentity
  \/ SendTrainTask
  \/ TrainIdentityTaskStep

SpecStore == InitStore /\ [][NextStore]_vars

\* ------------------------------------------- the speech client on its own

\* The largest retry_attempts a caller passes
MaxRetryAttempts == 3

\* The requests a call can make: retry_attempts + 1 and the fallback, and one
\* more, which a correct call never makes
SpeechRequests == 1..(MaxRetryAttempts + 3)

\* One call of generate_speech_with_retry: the voice, the optional
\* retry_attempts and the outcome of every request are the inputs; the
\* response keeps the inputs and the result of the call.  A behaviour makes
\* one call.
CallGenerateSpeechWithRetry ==
  \E voice_id \in { DefaultVoice, VoiceOf("u1") },
     retry_attempts \in { {} } \cup { {n} : n \in 0..MaxRetryAttempts },
     outcomes \in [ SpeechRequests -> {"ok", "fail", "raise"} ] :
    /\ response.op = "none"
    /\ response' = Response("generate_speech_with_retry", voice_id, retry_attempts, outcomes,
                            generate_speech_with_retry(voice_id, "job1", outcomes,
                                                       retry_attempts))
    /\ UNCHANGED << users, jobs, settings, handlers, uploads, dataset, trainTasks, videoTasks,
                    nEvents >>

NextSpeech == CallGenerateSpeechWithRetry

SpecSpeech == InitStore /\ [][NextSpeech]_vars

\* ------------------------------------------------------------ helpers

Range(seq) == { seq[i] : i \in DOMAIN seq }

\* An execution of train_identity_task that has set Processing and has not
\* yet made its terminal write
InTraining(T) ==
  T.pc \in {"preprocess", "caption", "validate", "write_completed", "write_failed", "except"}

\* An accepted train-identity request whose run has not yet written
\* Completed or Failed
AcceptedUnfinished(T) == (T.pc = "queued" /\ T.retries = 0) \/ InTraining(T)

\* The reason an Identity document carries for its Failed status
PersistedReason(doc) ==
  IF "error_message" \in DOMAIN doc THEN doc.error_message ELSE Null

\* How often a stage function was invoked by an execution
Invocations(R, stage) ==
  Cardinality({ i \in DOMAIN R.stages : R.stages[i] = stage })

\* s is an initial segment of t
IsPrefix(s, t) == Len(s) <= Len(t) /\ SubSeq(t, 1, Len(s)) = s

\* The stages of a Job in the order of generate_video_task lines 327-339:
\* compositing only for a Job with a product image, upload only with S3 set
StageOrder(job) ==
  <<"tts", "talking_head">>
    \o (IF job.product_image_path # Null THEN <<"compose">> ELSE <<>>)
    \o <<"enhance">>
    \o (IF S3Configured THEN <<"upload">> ELSE <<>>)

\* ------------------------------------------------------------ claims

\* C1: every change of an Identity's training_status is Pending->Processing,
\* Processing->Completed, Processing->Failed or Failed->Processing, and
\* train_identity_task never sets Processing on an Identity that is
\* Processing or Completed.
C1_TrainingTransitions ==
  [][ \A u \in DOMAIN users :
        /\ users'[u].training_status # users[u].training_status
             => << users[u].training_status, users'[u].training_status >> \in
                  { << PENDING, PROCESSING >>, << PROCESSING, COMPLETED >>,
                    << PROCESSING, FAILED >>, << FAILED, PROCESSING >> }
        /\ \A t \in DOMAIN trainTasks :
             ( /\ trainTasks[t].user_id = u
               /\ trainTasks[t].pc = "queued"
               /\ trainTasks'[t].pc = "preprocess" )
             => users[u].training_status \in { PENDING, FAILED } ]_vars

\* C2: no two executions of train_identity_task for the same user are both
\* between their Processing write and their terminal write.
C2_OneTrainingPerUser ==
  \A t1, t2 \in DOMAIN trainTasks :
    ( /\ t1 # t2
      /\ trainTasks[t1].user_id = trainTasks[t2].user_id
      /\ InTraining(trainTasks[t1]) )
    => ~InTraining(trainTasks[t2])

\* C3: while an accepted train-identity request is unfinished the Identity's
\* persisted status is Processing, and a user has at most one accepted,
\* unfinished request.
C3_AcceptedIsProcessing ==
  \A t \in DOMAIN trainTasks :
    AcceptedUnfinished(trainTasks[t])
    => /\ trainTasks[t].user_id \in DOMAIN users
       /\ users[trainTasks[t].user_id].training_status = PROCESSING
       /\ \A t2 \in DOMAIN trainTasks :
            ( t2 # t /\ trainTasks[t2].user_id = trainTasks[t].user_id )
            => ~AcceptedUnfinished(trainTasks[t2])

\* C4: a train-identity request for an Identity that is Processing is
\* answered with the conflict error, queues no task and leaves every record
\* as it was.
C4_ProcessingConflict ==
  [][ \A u \in UserIds :
        ( /\ u \in DOMAIN users
          /\ users[u].training_status = PROCESSING
          /\ train_identity(u) )
        => /\ response'.code = 400
           /\ response'.detail = "Training already in progress"
           /\ UNCHANGED << users, jobs, trainTasks, videoTasks, dataset, uploads >> ]_vars

C4_Witness ==
  /\ response.op = "train_identity"
  /\ response.detail = "Training already in progress"
  /\ users[response.key].training_status = PROCESSING

\* C5: a train-identity request for an Identity that is Completed returns
\* the stored lora_path, which is the one location of that user's artifact,
\* queues no task, runs no stage and leaves every record as it was.
C5_CompletedShortCircuit ==
  [][ \A u \in UserIds :
        ( /\ u \in DOMAIN users
          /\ users[u].training_status = COMPLETED
          /\ train_identity(u) )
        => /\ response'.code = 200
           /\ response'.detail = "already_completed"
           /\ response'.payload = users[u].lora_path
           /\ response'.payload = LoraPath(u)
           /\ UNCHANGED << users, jobs, trainTasks, videoTasks, dataset, uploads >> ]_vars

C5_Witness ==
  /\ response.op = "train_identity"
  /\ response.detail = "already_completed"
  /\ response.payload = LoraPath(response.key)

\* C6: a generate-video request for a user without an Identity, or whose
\* Identity is not Completed, is rejected and inserts no Job and queues no
\* task; every Job that is inserted belongs to a user whose Identity is
\* Completed at that moment.
C6_UntrainedRejected ==
  [][ /\ \A u \in UserIds :
           ( /\ u \notin DOMAIN users \/ users[u].training_status # COMPLETED
             /\ \E product_image \in BOOLEAN, voice_sample \in VoiceSamples :
                  generate_video(u, "Hello world", product_image, voice_sample) )
           => /\ response'.code \in {400, 404}
              /\ UNCHANGED << users, jobs, videoTasks >>
      /\ \A j \in DOMAIN jobs' \ DOMAIN jobs :
           /\ jobs'[j].user_id \in DOMAIN users
           /\ users[jobs'[j].user_id].training_status = COMPLETED ]_vars

C6_Witness ==
  /\ response.op = "generate_video"
  /\ response.code = 400
  /\ response.key \in DOMAIN users
  /\ users[response.key].training_status \in { PENDING, PROCESSING, FAILED }
  /\ jobs = << >>

\* C7: a Job's status only moves Pending->Processing, Processing->Completed
\* or Processing->Failed, whatever the queue delivers.
C7_JobTransitions ==
  [][ \A j \in DOMAIN jobs :
        jobs'[j].status # jobs[j].status
        => << jobs[j].status, jobs'[j].status >> \in
             { << PENDING, PROCESSING >>, << PROCESSING, COMPLETED >>,
               << PROCESSING, FAILED >> } ]_vars

\* C8: a training run whose preprocessing yields no usable image invokes
\* neither captioning, validation nor training, and once it has returned
\* the Identity is Failed and carries a reason.
C8_NoUsableFaces ==
  \A t \in DOMAIN trainTasks :
    trainTasks[t].result = "No faces detected in images"
    => /\ trainTasks[t].pc = "write_failed" => trainTasks[t].stages = << "preprocess" >>
       /\ trainTasks[t].pc = "done"
            => /\ users[trainTasks[t].user_id].training_status = FAILED
               /\ PersistedReason(users[trainTasks[t].user_id]) # Null

\* C9: an execution whose compositing stage failed goes on to the Completed
\* write with a video derived from the talking-head video, and that video
\* is what the write records for the Job.
C9_ComposeFallback ==
  [][ \A r \in DOMAIN videoTasks :
        videoTasks[r].compose \in {"none", "raise"}
        => /\ videoTasks[r].pc \in {"write_s3", "write_completed"}
           /\ videoTasks[r].base = "talking_head"
           /\ videoTasks[r].video \in
                { RawPath(videoTasks[r].job_id), FinalPath(videoTasks[r].job_id) }
           /\ videoTasks'[r].pc \in {"write_s3", "write_completed", "done"}
           /\ videoTasks'[r].pc = "done"
                => /\ jobs'[videoTasks[r].job_id].status = COMPLETED
                   /\ jobs'[videoTasks[r].job_id].video_path = videoTasks[r].video ]_vars

C9_Witness ==
  \E r \in DOMAIN videoTasks :
    /\ videoTasks[r].product_image_path # Null
    /\ videoTasks[r].compose \in {"none", "raise"}
    /\ videoTasks[r].pc = "write_completed"
    /\ videoTasks[r].video = FinalPath(videoTasks[r].job_id)

\* C10: when one of the three S3 settings is unset no execution invokes the
\* upload stage, an execution whose stages succeeded goes to the Completed
\* write, and every Job has s3_url null and, once Completed, a video path.
C10_UnconfiguredUpload ==
  ~( settings.AWS_ACCESS_KEY_ID /\ settings.AWS_SECRET_ACCESS_KEY /\ settings.S3_BUCKET_NAME )
  => /\ \A r \in DOMAIN videoTasks :
          /\ "upload" \notin Range(videoTasks[r].stages)
          /\ videoTasks[r].s3_url = Null
          /\ "enhance" \in Range(videoTasks[r].stages)
               => videoTasks[r].pc = "write_completed"
     /\ \A j \in DOMAIN jobs :
          /\ jobs[j].s3_url = Null
          /\ jobs[j].status = COMPLETED => jobs[j].video_path # Null

C10_Witness ==
  /\ settings.AWS_ACCESS_KEY_ID
  /\ settings.AWS_SECRET_ACCESS_KEY
  /\ ~settings.S3_BUCKET_NAME
  /\ \E j \in DOMAIN jobs :
       /\ jobs[j].status = COMPLETED
       /\ jobs[j].s3_url = Null
       /\ jobs[j].video_path = FinalPath(j)

\* C11: with remote storage configured, an execution whose upload returned
\* None or raised holds no remote URL and a local video, is at the Completed
\* write and not at the Failed write, and that write marks the Job Completed
\* with the local video path and s3_url null.
C11_UploadFailureCompletes ==
  [][ \A r \in DOMAIN videoTasks :
        ( /\ S3Configured
          /\ "upload" \in Range(videoTasks[r].stages)
          /\ videoTasks[r].upload \in {"none", "raise"} )
        => /\ videoTasks[r].pc = "write_completed"
           /\ videoTasks[r].s3_url = Null
           /\ videoTasks[r].video # Null
           /\ videoTasks'[r].pc \in {"write_completed", "done"}
           /\ videoTasks'[r].pc = "done"
                => /\ jobs'[videoTasks[r].job_id].status = COMPLETED
                   /\ jobs'[videoTasks[r].job_id].video_path = videoTasks[r].video
                   /\ jobs'[videoTasks[r].job_id].s3_url = Null ]_vars

C11_Witness ==
  /\ S3Configured
  /\ \E r \in DOMAIN videoTasks :
       /\ videoTasks[r].pc = "write_completed"
       /\ videoTasks[r].upload = "raise"
       /\ "upload" \in Range(videoTasks[r].stages)

\* C12: when no speech request of an execution succeeds, the execution goes
\* to the Failed write with the reason captured and without invoking the
\* talking-head stage, and that write marks the Job Failed with the reason
\* as error_message.
C12_SpeechFailureFailsJob ==
  [][ \A r \in DOMAIN videoTasks :
        /\ \A tts \in TtsOutcomes :
             ( /\ \A i \in DOMAIN tts : tts[i] # "ok"
               /\ VideoRunStagesWith(r, tts, "ok", "ok", "ok", "ok") )
             => /\ videoTasks'[r].pc = "write_failed"
                /\ videoTasks'[r].stages = << "tts" >>
                /\ videoTasks'[r].result \in { "TTS generation failed", "OSError" }
        /\ ( /\ videoTasks[r].pc = "write_failed"
             /\ videoTasks[r].stages = << "tts" >> )
           => /\ videoTasks'[r].pc \in { "write_failed", "done" }
              /\ videoTasks'[r].pc = "done"
                   => /\ jobs'[videoTasks[r].job_id].status = FAILED
                      /\ jobs'[videoTasks[r].job_id].error_message = videoTasks[r].result ]_vars

C12_Witness ==
  \E r \in DOMAIN videoTasks :
    /\ videoTasks[r].pc = "write_failed"
    /\ videoTasks[r].result = "TTS generation failed"
    /\ Len(videoTasks[r].tts_voices) = ELEVENLABS_RETRY_ATTEMPTS + 2
    /\ videoTasks[r].stages = << "tts" >>

\* C13: in the end-to-end scenario the training request ends with the
\* Identity Completed, an artifact path stored and the two face images in the
\* dataset, and every Job submitted ends Completed with a local video path
\* and no remote URL.
C13_EndToEnd ==
  /\ ( trainTasks # << >> )
       ~> ( /\ "u1" \in DOMAIN users
            /\ users["u1"].training_status = COMPLETED
            /\ users["u1"].lora_path = LoraPath("u1")
            /\ dataset["u1"].jpg = {1, 3} )
  /\ \A n \in 1..MaxEvents :
       ( JobKey(n) \in DOMAIN jobs )
         ~> ( /\ JobKey(n) \in DOMAIN jobs
              /\ jobs[JobKey(n)].status = COMPLETED
              /\ jobs[JobKey(n)].video_path = FinalPath(JobKey(n))
              /\ jobs[JobKey(n)].s3_url = Null )

C13_Witness ==
  /\ "u1" \in DOMAIN users
  /\ users["u1"].training_status = COMPLETED
  /\ users["u1"].lora_path # Null
  /\ Len(uploads["u1"]) = 3
  /\ Cardinality(dataset["u1"].jpg) = 2
  /\ JobKey(1) \in DOMAIN jobs
  /\ jobs[JobKey(1)].product_image_path = Null
  /\ jobs[JobKey(1)].status = COMPLETED
  /\ jobs[JobKey(1)].video_path # Null
  /\ jobs[JobKey(1)].s3_url = Null

\* C14: an attempt of train_identity_task in which training returned false
\* or something raised sets the Identity Failed and is handed to the retry
\* layer: it is queued again while fewer than max_retries retries were made
\* and ends otherwise; an execution that has ended runs no further attempt.
C14_FailureHandedToRetry ==
  [][ \A t \in DOMAIN trainTasks :
        /\ ( /\ \/ trainTasks[t].pc = "except"
                 \/ ( trainTasks[t].pc = "write_failed"
                       /\ trainTasks[t].result = "Training failed" )
             /\ trainTasks'[t] # trainTasks[t] )
           => /\ users'[trainTasks[t].user_id].training_status = FAILED
              /\ IF trainTasks[t].retries < train_identity_max_retries
                   THEN /\ trainTasks'[t].pc = "queued"
                        /\ trainTasks'[t].retries = trainTasks[t].retries + 1
                   ELSE trainTasks'[t].pc = "done"
        /\ trainTasks[t].retries <= train_identity_max_retries
        /\ trainTasks[t].pc = "done" => trainTasks'[t] = trainTasks[t] ]_vars

\* C15: within an execution every speech request is made with the same
\* voice, a failed request is followed by another one until the bounded
\* number of requests is used up, so the execution fails at the speech stage
\* only after all of them, and the speech stage is the only stage a retry
\* runs again.
C15_SpeechRetriedSameInputs ==
  \A r \in DOMAIN videoTasks :
    videoTasks[r].tts_voices # << >>
    => /\ \A i \in DOMAIN videoTasks[r].tts_voices :
            videoTasks[r].tts_voices[i] = videoTasks[r].voice
       /\ Len(videoTasks[r].tts_voices) <= ELEVENLABS_RETRY_ATTEMPTS + 2
       /\ ( videoTasks[r].pc = "write_failed" /\ videoTasks[r].stages = << "tts" >> )
            => Len(videoTasks[r].tts_voices) = ELEVENLABS_RETRY_ATTEMPTS + 2
       /\ Cardinality({ i \in DOMAIN videoTasks[r].stages :
                          videoTasks[r].stages[i] = "tts" }) = 1

\* C16: an execution that fails at the talking-head stage has invoked that
\* stage once and once more for each of its max_retries retries, has invoked
\* speech synthesis once, and has invoked neither compositing, enhancement
\* nor upload.
C16_TalkingHeadRetried ==
  \A r \in DOMAIN videoTasks :
    ( /\ videoTasks[r].pc = "write_failed"
      /\ "talking_head" \in Range(videoTasks[r].stages) )
    => /\ Invocations(videoTasks[r], "talking_head") = 1 + generate_talking_head_max_retries
       /\ Invocations(videoTasks[r], "tts") = 1
       /\ Range(videoTasks[r].stages) \subseteq { "tts", "talking_head" }

\* C17: an execution of generate_video_task for a job key without a record
\* returns the failure "Job not found" at once: it inserts and changes no
\* record, invokes no stage function and queues no message.
C17_UnknownJobFailsAtOnce ==
  [][ \A r \in DOMAIN videoTasks :
        ( /\ videoTasks[r].job_id \notin DOMAIN jobs
          /\ generate_video_task(r) )
        => /\ videoTasks'[r].pc = "done"
           /\ videoTasks'[r].result = "Job not found"
           /\ videoTasks'[r].stages = << >>
           /\ Len(videoTasks') = Len(videoTasks)
           /\ UNCHANGED << users, jobs, trainTasks, uploads, dataset >> ]_vars

C17_Witness ==
  \E r \in DOMAIN videoTasks :
    /\ videoTasks[r].job_id \notin DOMAIN jobs
    /\ videoTasks[r].pc = "done"
    /\ videoTasks[r].result = "Job not found"

\* C18: an execution that finds the owning user absent or the Identity not
\* Completed has set the Job Processing, invokes no stage function, goes to
\* the Failed write with a descriptive reason, and that write marks the Job
\* Failed with the reason as error_message and queues no message.
C18_IdentityPreconditionFails ==
  [][ /\ \A r \in DOMAIN videoTasks :
        ( /\ videoTasks[r].pc = "load_user"
          /\ \/ videoTasks[r].user_id \notin DOMAIN users
             \/ users[videoTasks[r].user_id].training_status # COMPLETED
          /\ generate_video_task(r) )
        => /\ videoTasks'[r].pc = "write_failed"
           /\ videoTasks'[r].stages = << >>
           /\ videoTasks'[r].result \in { "User not found", "User identity not trained" }
           /\ Len(videoTasks') = Len(videoTasks)
           /\ UNCHANGED nEvents
      /\ \A r \in DOMAIN videoTasks :
        ( /\ videoTasks[r].pc = "write_failed"
          /\ videoTasks[r].stages = << >>
          /\ generate_video_task(r) )
        => /\ videoTasks'[r].pc = "done"
           /\ jobs'[videoTasks[r].job_id].status = FAILED
           /\ jobs'[videoTasks[r].job_id].error_message = videoTasks[r].result
           /\ jobs'[videoTasks[r].job_id].error_message # Null
           /\ Len(videoTasks') = Len(videoTasks) ]_vars

C18_Witness ==
  \E r \in DOMAIN videoTasks :
    /\ videoTasks[r].pc = "write_failed"
    /\ videoTasks[r].stages = << >>
    /\ videoTasks[r].result = "User identity not trained"
    /\ jobs[videoTasks[r].job_id].status = PROCESSING

\* C19: every Identity whose training status is Failed and every Job whose
\* status is Failed carries a persisted reason.
C19_FailedCarriesReason ==
  /\ \A u \in DOMAIN users :
       users[u].training_status = FAILED => PersistedReason(users[u]) # Null
  /\ \A j \in DOMAIN jobs :
       jobs[j].status = FAILED => jobs[j].error_message # Null

\* C20: download_video answers with a video only for a Job that is
\* Completed and refuses a Job in any other status; for a Completed Job it
\* answers with the signed link when the Job has a remote location and the
\* signing succeeds, else with the local file when it exists, else with 404;
\* it changes no record.
C20_DownloadOnlyCompleted ==
  [][ \A job_id \in DOMAIN jobs \cup UnknownJobIds, presign \in {"ok", "none"},
         file_exists \in BOOLEAN :
        download_video(job_id, presign, file_exists)
        => /\ response'.code = 200
                => job_id \in DOMAIN jobs /\ jobs[job_id].status = COMPLETED
           /\ job_id \notin DOMAIN jobs => response'.code = 404
           /\ ( job_id \in DOMAIN jobs /\ jobs[job_id].status # COMPLETED )
                => response'.code = 400 /\ response'.payload = Null
           /\ ( job_id \in DOMAIN jobs /\ jobs[job_id].status = COMPLETED )
                => IF jobs[job_id].s3_url # Null /\ S3Configured /\ presign = "ok"
                     THEN /\ response'.code = 200
                          /\ response'.detail = "download_url"
                          /\ response'.payload
                               = "https://bucket.s3.amazonaws.com/" \o job_id
                                   \o ".mp4?X-Amz-Signature"
                   ELSE IF jobs[job_id].video_path # Null /\ file_exists
                     THEN /\ response'.code = 200
                          /\ response'.detail = "file"
                          /\ response'.payload = jobs[job_id].video_path
                   ELSE response'.code = 404
           /\ UNCHANGED << users, jobs, trainTasks, videoTasks >> ]_vars

C20_Witness ==
  /\ response.op = "download_video"
  /\ response.code = 200
  /\ response.detail = "download_url"
  /\ response.key \in DOMAIN jobs
  /\ jobs[response.key].status = COMPLETED
  /\ jobs[response.key].s3_url = S3Url(response.key)

\* C21: once a Job is Completed or Failed, no step changes its status,
\* video_path, error_message, completed_at, script_text or user_id; only
\* s3_url may still be written.
C21_TerminalImmutable ==
  [][ \A j \in DOMAIN jobs :
        jobs[j].status \in { COMPLETED, FAILED }
        => /\ j \in DOMAIN jobs'
           /\ jobs'[j].status = jobs[j].status
           /\ jobs'[j].video_path = jobs[j].video_path
           /\ jobs'[j].error_message = jobs[j].error_message
           /\ jobs'[j].completed_at = jobs[j].completed_at
           /\ jobs'[j].script_text = jobs[j].script_text
           /\ jobs'[j].user_id = jobs[j].user_id ]_vars

\* C22: the stages an execution of generate_video_task has invoked are an
\* initial segment of speech, talking head, compositing (exactly for a Job
\* with a product image), enhancement, upload (exactly when S3 is
\* configured); an execution goes on to its s3_url or Completed write only
\* with all of them invoked, and a Job becomes Completed only by the write of
\* such an execution.
C22_StageOrder ==
  [][ /\ \A r \in DOMAIN videoTasks' :
           LET R == videoTasks'[r]
           IN  R.stages # <<>>
               => /\ R.job_id \in DOMAIN jobs'
                  /\ IsPrefix(R.stages, StageOrder(jobs'[R.job_id]))
                  /\ R.pc \in { "write_s3", "write_completed" }
                       <=> R.stages = StageOrder(jobs'[R.job_id])
      /\ \A j \in DOMAIN jobs :
           ( jobs[j].status # COMPLETED /\ jobs'[j].status = COMPLETED )
           => \E r \in DOMAIN videoTasks :
                /\ videoTasks[r].job_id = j
                /\ videoTasks[r].pc = "write_completed"
                /\ videoTasks[r].stages = StageOrder(jobs[j])
                /\ videoTasks'[r].pc = "done" ]_vars

C22_Witness ==
  \E r \in DOMAIN videoTasks :
    /\ videoTasks[r].pc = "write_completed"
    /\ videoTasks[r].stages = <<"tts", "talking_head", "compose", "enhance", "upload">>
    /\ videoTasks[r].s3_url # Null

\* C23: for a Job whose speech and talking-head stages succeeded, whatever
\* the filters and the relocation of the enhancement stage do (a filter
\* returns None or its input, a filter or the move raises), no exception
\* leaves enhance_video_task, the video it returns is the final video or the
\* video it was given, the Job is never Failed, and the execution ends with
\* the Job Completed and a video path stored.
C23_EnhanceNeverFails ==
  /\ [][ \A r \in DOMAIN videoTasks :
           ( videoTasks[r].pc = "enhance" /\ videoTasks'[r].pc # "enhance" )
           => /\ videoTasks'[r].pc \in { "write_s3", "write_completed" }
              /\ videoTasks'[r].video \in { FinalPath(videoTasks[r].job_id),
                                           videoTasks[r].video }
              /\ videoTasks'[r].video =
                   enhance_video_task([ path |-> videoTasks[r].video,
                                        base |-> videoTasks[r].base ],
                                      videoTasks[r].job_id,
                                      IF videoTasks'[r].enhance.raised THEN "raise"
                                                                       ELSE "ok").path ]_vars
  /\ [](\A j \in DOMAIN jobs : jobs[j].status # FAILED)
  /\ [](\A r \in DOMAIN videoTasks :
          /\ videoTasks[r].pc \in { "enhance", "write_s3", "write_completed", "done" }
          /\ videoTasks[r].pc = "done"
             => /\ jobs[videoTasks[r].job_id].status = COMPLETED
                /\ jobs[videoTasks[r].job_id].video_path # Null)

C23_Witness ==
  \E r \in DOMAIN videoTasks :
    /\ videoTasks[r].pc = "write_completed"
    /\ videoTasks[r].enhance.raised
    /\ Len(videoTasks[r].enhance.calls) = 3
    /\ videoTasks[r].video = RawPath(videoTasks[r].job_id)

\* C24: after the enhancement stage the four filters have been called in
\* the order face restoration, upscale, temporal smoothing, color correction,
\* each on the video it was given or on the output of the filter before it,
\* and the video handed on is VIDEO_FINAL_DIR/<job_id>.mp4.
C24_FiltersAndRelocation ==
  \A r \in DOMAIN videoTasks :
    videoTasks[r].pc \in { "write_s3", "write_completed" }
    => LET e == videoTasks[r].enhance
           j == videoTasks[r].job_id
       IN  /\ [ i \in DOMAIN e.calls |-> e.calls[i].filter ] = EnhanceFilters
           /\ e.calls[1].input = e.path
           /\ \A i \in DOMAIN e.calls :
                i > 1 => e.calls[i].input \in
                           { e.calls[i - 1].input,
                             OutputPath(e.calls[i - 1].input, j, e.calls[i - 1].filter) }
           /\ videoTasks[r].video = FinalPath(j)

\* C25: an Identity has a lora_path only while its training_status is
\* Completed.
C25_ArtifactOnlyOnCompleted ==
  \A u \in DOMAIN users :
    users[u].lora_path # Null => users[u].training_status = COMPLETED

\* C26: an Identity whose training_status is Completed has a lora_path; the
\* status becomes Completed only in the step of an execution of
\* train_identity_task whose call of LoRATrainer.train returned success, and
\* that step writes the lora_path too.
C26_CompletedHasArtifact ==
  /\ [](\A u \in DOMAIN users :
          users[u].training_status = COMPLETED => users[u].lora_path # Null)
  /\ [][ \A u \in DOMAIN users :
           ( users[u].training_status # COMPLETED /\ users'[u].training_status = COMPLETED )
           => /\ users'[u].lora_path = LoraPath(u)
              /\ \E t \in DOMAIN trainTasks :
                   /\ trainTasks[t].user_id = u
                   /\ trainTasks[t].pc = "write_completed"
                   /\ trainTasks[t].stages = <<"preprocess", "caption", "validate", "train">>
                   /\ trainTasks[t].result = Null
                   /\ trainTasks'[t].pc = "done" ]_vars

C26_Witness ==
  \E u \in DOMAIN users :
    /\ users[u].training_status = COMPLETED
    /\ users[u].lora_path = LoraPath(u)
    /\ \E t \in DOMAIN trainTasks :
         trainTasks[t].user_id = u /\ trainTasks[t].result = COMPLETED

\* C27: a Job has an error_message only while its status is Failed.
C27_ErrorOnlyOnFailed ==
  \A j \in DOMAIN jobs :
    jobs[j].error_message # Null => jobs[j].status = FAILED

\* C28: a Job has a completed_at only in a terminal state, every Completed
\* Job has one and no Failed Job has one.
C28_CompletedAtOnlyTerminal ==
  \A j \in DOMAIN jobs :
    /\ jobs[j].completed_at # Null => jobs[j].status \in { COMPLETED, FAILED }
    /\ jobs[j].status = COMPLETED => jobs[j].completed_at # Null
    /\ jobs[j].status = FAILED => jobs[j].completed_at = Null

\* C29: when the workers keep executing the queued tasks, every behaviour
\* reaches a point from which on every submitted Job is Completed or Failed
\* and every accepted training request has finished with its Identity
\* Completed or Failed: no Job stays Pending or Processing, no Identity stays
\* Processing.
C29_EveryRunTerminates ==
  <>[]( /\ \A j \in DOMAIN jobs : jobs[j].status \in { COMPLETED, FAILED }
        /\ \A t \in DOMAIN trainTasks :
             /\ trainTasks[t].pc = "done"
             /\ users[trainTasks[t].user_id].training_status \in { COMPLETED, FAILED } )

C29_Witness ==
  /\ \E j \in DOMAIN jobs : jobs[j].status = FAILED
  /\ \A j \in DOMAIN jobs : jobs[j].status \in { COMPLETED, FAILED }
  /\ trainTasks # << >>
  /\ \A t \in DOMAIN trainTasks :
       /\ trainTasks[t].pc = "done"
       /\ users[trainTasks[t].user_id].training_status \in { COMPLETED, FAILED }

\* C30: a Job whose task ran into its wall-clock limit is Completed or
\* Failed once no execution of its task is left.
C30_TimeLimitEndsTerminal ==
  \A j \in DOMAIN jobs :
    ( /\ \E r \in DOMAIN videoTasks :
           videoTasks[r].job_id = j /\ videoTasks[r].pc = "killed"
      /\ \A r \in DOMAIN videoTasks :
           videoTasks[r].job_id = j => videoTasks[r].pc \in { "done", "killed" } )
    => jobs[j].status \in { COMPLETED, FAILED }

\* C31: in every reachable state the collection holds at most one Identity
\* document per user_id, whatever the interleaving of the find_one and
\* insert_one calls of concurrent upload-photos requests and
\* train_identity_task executions, and a document that an upload-photos
\* request inserts has status Pending.
C31_OneIdentityPerUser ==
  /\ [](\A u \in UserIds : Cardinality(DocumentsOf(u)) <= 1)
  /\ [][ \A h \in DOMAIN handlers :
           handlers[h].pc = "insert_one" /\ handlers'[h].pc = "save"
             => /\ Cardinality(DOMAIN users' \ DOMAIN users) = 1
                /\ \A k \in DOMAIN users' \ DOMAIN users :
                     /\ users'[k].user_id = handlers[h].user_id
                     /\ users'[k].training_status = PENDING ]_vars

\* Two executions found no document for u1, one inserted and the insert_one
\* of the other was refused: a request answered 500 and a task in its except
\* clause or retried, with one document in the collection
C31_Witness ==
  /\ Cardinality(DocumentsOf("u1")) = 1
  /\ \E h \in DOMAIN handlers : handlers[h].pc = "done" /\ response.detail = "DuplicateKeyError"
  /\ \E t \in DOMAIN trainTasks : trainTasks[t].pc = "except"

\* C32: a step that adds a Job adds exactly one, under a key no Job had, with
\* status Pending and video_path, s3_url, error_message and completed_at
\* null; its user_id is that of an Identity that exists and was Completed in
\* the state the handler checked; the step queues one message for the new
\* key, and every queued message other than one sent for an unknown job id
\* carries the key of a Job that is in the collection.
C32_JobCreation ==
  /\ [][ DOMAIN jobs' # DOMAIN jobs =>
           \E j \in DOMAIN jobs' \ DOMAIN jobs :
             /\ DOMAIN jobs' = DOMAIN jobs \cup {j}
             /\ jobs'[j].job_id = j
             /\ jobs'[j].status = PENDING
             /\ jobs'[j].video_path = Null
             /\ jobs'[j].s3_url = Null
             /\ jobs'[j].error_message = Null
             /\ jobs'[j].completed_at = Null
             /\ jobs'[j].user_id \in DOMAIN users
             /\ users[jobs'[j].user_id].training_status = COMPLETED
             /\ \A k \in DOMAIN jobs : jobs'[k] = jobs[k]
             /\ videoTasks' = Append(videoTasks, VideoMessage(j)) ]_vars
  /\ [](\A r \in DOMAIN videoTasks :
          videoTasks[r].job_id \in DOMAIN jobs \cup UnknownJobIds)

\* A second Job has been submitted: both are in the collection, the new one
\* Pending with its message queued
C32_Witness ==
  /\ Cardinality(DOMAIN jobs) = 2
  /\ \E j \in DOMAIN jobs, r \in DOMAIN videoTasks :
       /\ jobs[j].status = PENDING
       /\ jobs[j].video_path = Null
       /\ videoTasks[r].job_id = j
       /\ videoTasks[r].pc = "queued"

\* C33: a step in which get_training_status, get_job_status or
\* download_video answers leaves both collections as they were, and a step
\* that changes the status of a document that was in its collection is a step
\* of an execution of train_identity_task for that user, respectively of
\* generate_video_task for that job: no request handler changes a status.
C33_OnlyTasksWriteStatus ==
  /\ [][ /\ response'.op \in {"get_training_status", "get_job_status", "download_video"}
         /\ nEvents' = nEvents + 1
         /\ trainTasks' = trainTasks
         /\ videoTasks' = videoTasks
         => users' = users /\ jobs' = jobs ]_vars
  /\ [][ \A u \in DOMAIN users :
           users'[u].training_status # users[u].training_status
             => \E t \in DOMAIN trainTasks :
                  trainTasks[t].user_id = u /\ trainTasks'[t] # trainTasks[t] ]_vars
  /\ [][ \A j \in DOMAIN jobs :
           jobs'[j].status # jobs[j].status
             => \E r \in DOMAIN videoTasks :
                  videoTasks[r].job_id = j /\ videoTasks'[r] # videoTasks[r] ]_vars

\* get_job_status has answered for a Job that the task completed, and the
\* Identity went from Pending to Completed
C33_Witness ==
  /\ response.op = "get_job_status"
  /\ response.code = 200
  /\ response.detail = COMPLETED
  /\ jobs[response.key].status = COMPLETED
  /\ users["u1"].training_status = COMPLETED

C35_TrainOnlyValidated ==
  /\ [][ \A t \in DOMAIN trainTasks :
           "train" \in Range(trainTasks'[t].stages) /\ "train" \notin Range(trainTasks[t].stages)
             => /\ trainTasks[t].stages = <<"preprocess", "caption">>
                /\ trainTasks'[t].stages = <<"preprocess", "caption", "validate", "train">>
                /\ dataset[trainTasks[t].user_id].jpg # {}
                /\ dataset[trainTasks[t].user_id].jpg \subseteq dataset[trainTasks[t].user_id].txt
         ]_vars
  /\ [][ \A t \in DOMAIN trainTasks :
           /\ trainTasks[t].pc = "validate"
           /\ trainTasks'[t] # trainTasks[t]
           /\ trainTasks'[t].pc # "except"
           /\ ~(dataset[trainTasks[t].user_id].jpg \subseteq dataset[trainTasks[t].user_id].txt)
           => /\ trainTasks'[t].pc = "write_failed"
              /\ trainTasks'[t].result = "Invalid dataset"
              /\ "train" \notin Range(trainTasks'[t].stages) ]_vars
  /\ [][ \A t \in DOMAIN trainTasks :
           trainTasks[t].pc = "write_failed" /\ trainTasks'[t].pc = "done"
             => users'[trainTasks[t].user_id].training_status = FAILED ]_vars

\* An execution found an image without a caption, which a concurrent
\* execution for the same user had written, and set the Identity to Failed
C35_Witness ==
  /\ \E t \in DOMAIN trainTasks :
       trainTasks[t].pc = "done" /\ trainTasks[t].result = "Invalid dataset"
  /\ users["u1"].training_status = FAILED

\* C36: a step of the handler train_identity never changes a document; when
\* the user has no document, no upload directory or a directory without a
\* valid image it answers 404 or 400 and queues no task; when the user's
\* status is Pending or Failed and the directory holds at least one valid
\* image it answers "processing" and queues one task for that user with the
\* images of the directory.
C36_AcceptedOnlyWithImages ==
  [][ \A u \in UserIds :
        train_identity(u) =>
          /\ users' = users
          /\ (~UserExists(u) \/ uploads[u] = NoDirectory \/ Len(uploads[u]) = 0)
               => /\ trainTasks' = trainTasks
                  /\ response'.code \in {400, 404}
          /\ ( /\ UserExists(u)
               /\ users[u].training_status \in {PENDING, FAILED}
               /\ uploads[u] # NoDirectory
               /\ Len(uploads[u]) >= 1 )
               => /\ response'.code = 200
                  /\ response'.detail = "processing"
                  /\ Len(trainTasks') = Len(trainTasks) + 1
                  /\ trainTasks'[Len(trainTasks')].user_id = u
                  /\ trainTasks'[Len(trainTasks')].image_paths = Len(uploads[u])
                  /\ trainTasks'[Len(trainTasks')].pc = "queued" ]_vars

\* A request for a user whose document is inserted and whose upload
\* directory does not exist yet was rejected, and no task was queued
C36_Witness ==
  /\ response.op = "train_identity"
  /\ response.detail = "No photos uploaded for this user"
  /\ UserExists("u1")
  /\ trainTasks = << >>

C38_CompletedJobHasVideoPath ==
  /\ [](\A j \in DOMAIN jobs :
          jobs[j].status = COMPLETED
            => jobs[j].video_path # Null /\ jobs[j].completed_at # Null)
  /\ [][ \A j \in DOMAIN jobs :
           jobs[j].status # COMPLETED /\ jobs'[j].status = COMPLETED
             => /\ jobs'[j].video_path \in {FinalPath(j), ComposedPath(j), RawPath(j)}
                /\ jobs'[j].s3_url \in {Null, S3Url(j)}
                /\ jobs'[j].completed_at = Stamp
                /\ \E r \in DOMAIN videoTasks :
                     /\ videoTasks[r].job_id = j
                     /\ videoTasks[r].pc = "write_completed"
                     /\ jobs'[j].video_path = videoTasks[r].video ]_vars

\* A filter returned None, the next one raised on it and the stage handed its
\* input back: the Job is Completed with the video of the composition
C38_Witness ==
  /\ jobs["job1"].status = COMPLETED
  /\ jobs["job1"].video_path = ComposedPath("job1")
  /\ \E r \in DOMAIN videoTasks : videoTasks[r].pc = "done"

====
